---- MODULE Spec2Model ----
(***************************************************************************)
(* Model of the dsf-iot service engine (src/src/engine/mod.rs) with its    *)
(* in-memory store (src/src/engine/store.rs) and datagram communications   *)
(* (src/src/engine/comms.rs).                                              *)
(*                                                                         *)
(* The engine state is kept per engine; every operation records what it    *)
(* was called with (op), the engine state it started from (pre), what it   *)
(* returned (ret) and the datagrams it handed to Communications::send or   *)
(* ::broadcast (tx), so that the contracts of the operations can be stated *)
(* as state predicates.                                                    *)
(***************************************************************************)
EXTENDS Integers, Sequences, FiniteSets, TLC

VARIABLES
    svc,        \* per engine: the dsf_core Service (id, version, data_index, last_sig)
    pri,        \* per engine: Engine.pri, signature of the primary page
    req_id,     \* per engine: Engine.req_id (u16)
    store,      \* per engine: the MemoryStore (our_keys, last_sig, peers, pages)
    running,    \* per engine: FALSE once a handler has panicked
    op,         \* the last operation and its arguments
    pre,        \* engine state (store, req_id, pri) the last operation started from
    ret,        \* what the last operation returned
    tx,         \* datagrams the last operation sent, in order
    returned,   \* per engine: the signature its last successful publish returned,
                \* the primary page's signature before the first
    allocated,  \* per engine: how many request ids it has allocated
    net,        \* per address: the datagrams in flight to it, <<source address, object>>
    emitted     \* per engine: the events its ticks have returned, in order

vars == <<svc, pri, req_id, store, running, op, pre, ret, tx, returned, allocated, net, emitted>>

----------------------------------------------------------------------------
(* Bounds *)

\* data objects one engine publishes
MaxPublish == 2

\* request ids one engine allocates beyond each starting value of the counter
MaxRequests == 2

\* subscribe() calls of engine 1 in the two-engine system
NetMaxSubscribe == 2

\* publish() calls of engine 2 in the two-engine system
NetMaxPublish == 1

----------------------------------------------------------------------------
(* Identifiers, addresses, keys *)

\* the engine under test and a second engine
Engines == {1, 2}

\* service identifiers: the engines and one further peer service
Ids == {1, 2, 3}

\* datagram addresses (Communications::Address)
Addrs == {"a1", "a2"}

\* RequestId is u16
U16 == 2 ^ 16

\* Keys::default(): no public key known
NoKey == 0

\* Peer::default(): no address known
NoAddr == "none"

\* the public key of service id; the id is derived from it (IdOfKey)
PubKeyOf(id) == 100 + id

IdOfKey(k) == k - 100

\* no signature (the first object of a chain has no previous signature)
NoSig == [sig |-> << >>]

----------------------------------------------------------------------------
(* SubscribeState, Peer, ObjectInfo *)

SubNone == [s |-> "None", id |-> 0]

Subscribing(r) == [s |-> "Subscribing", id |-> r]

Subscribed == [s |-> "Subscribed", id |-> 0]

Unsubscribing(r) == [s |-> "Unsubscribing", id |-> r]

DefaultPeer ==
    [keys |-> NoKey, addr |-> NoAddr, subscriber |-> FALSE, subscribed |-> SubNone]

\* Peer::subscribed(): true while Subscribing(_) or Subscribed
PeerSubscribed(p) ==
    IF p.subscribed.s = "Subscribing" THEN TRUE
    ELSE IF p.subscribed = Subscribed THEN TRUE
    ELSE FALSE

NoInfo == [page_index |-> 0, block_index |-> 0, sig |-> NoSig, set |-> FALSE]

ObjectInfo(pi, bi, s) == [page_index |-> pi, block_index |-> bi, sig |-> s, set |-> TRUE]

----------------------------------------------------------------------------
(* MemoryStore *)

MemoryStoreNew == [our_keys |-> NoKey, last_sig |-> NoInfo, peers |-> << >>, pages |-> {}]

GetLast(st) == st.last_sig

SetLast(st, info) == [st EXCEPT !.last_sig = info]

HasPeer(st, id) == id \in DOMAIN st.peers

\* get_peer: the record, or DefaultPeer where the caller has checked HasPeer
GetPeer(st, id) == IF HasPeer(st, id) THEN st.peers[id] ELSE DefaultPeer

\* faulty variant: the table is left holding the updated record alone
UpdatePeerAlone(st, id, np) == [st EXCEPT !.peers = [q \in {id} |-> np]]

\* update_peer(id, f): entry(id).or_default(), then f; np is f applied to GetPeer(st, id)
UpdatePeer(st, id, np) ==
    [st EXCEPT !.peers = [q \in (DOMAIN st.peers) \cup {id} |-> IF q = id THEN np ELSE st.peers[q]]]

\* faulty variant: the insert drops the pages stored before
StorePageAlone(st, sig, p) == [st EXCEPT !.pages = {[sig |-> sig, page |-> p]}]

\* store_page: insert keyed by signature, replacing an entry with the same key
StorePage(st, sig, p) ==
    [st EXCEPT !.pages = {e \in st.pages : e.sig # sig} \cup {[sig |-> sig, page |-> p]}]

HasPage(st, sig) == \E e \in st.pages : e.sig = sig

FetchPage(st, sig) == (CHOOSE e \in st.pages : e.sig = sig).page

----------------------------------------------------------------------------
(* Wire objects.  Every datagram holds one object: kind is the header's     *)
(* base kind, from the owner id, id the header index (the request id of a   *)
(* request or response), pkr the PUB_KEY_REQUEST flag, public_key the       *)
(* attached or embedded public key, data the body.                          *)

Status(st) == [t |-> "Status", st |-> st]

\* the signature is the content address of an object
Sign(o) == [sig |-> <<o.kind, o.from, o.id, o.data>>]

\* NetRequest::new(from, id, data, flags), the public key attached when key # NoKey
NetRequest(from, id, data, pkr, key) ==
    [kind |-> "Request", from |-> from, id |-> id, pkr |-> pkr, public_key |-> key, data |-> data]

\* NetResponse::new(from, id, data, Default::default())
NetResponse(from, id, data, key) ==
    [kind |-> "Response", from |-> from, id |-> id, pkr |-> FALSE, public_key |-> key, data |-> data]

----------------------------------------------------------------------------
(* The dsf_core Service collaborator *)

\* the descriptors of the service's IotInfo body
SvcDescriptors == {"Temperature/R", "Pressure/R", "Humidity/R"}

\* the public options of the service: publish_primary(Default::default()) sets none
SvcPublicOptions == {}

\* get_ident(): the identity keys the store holds, NoKey for none
GetIdent(st) == st.our_keys

\* ServiceBuilder ... build(): the identity is that of the keys loaded from the
\* store, of freshly generated keys (those of service `fresh`) when the store
\* holds none; continue from the stored last-object pointer if any
ServiceBuild(fresh, st) ==
    [id |-> IF GetIdent(st) # NoKey THEN IdOfKey(GetIdent(st)) ELSE fresh,
     version |-> IF GetLast(st).set THEN GetLast(st).page_index ELSE 0,
     data_index |-> 0,
     last_sig |-> IF GetLast(st).set THEN GetLast(st).sig ELSE NoSig]

\* Service::publish_primary: the page (header index = version) chained from last_sig
PrimaryPage(s) ==
    [kind |-> "Page", from |-> s.id, id |-> s.version, pkr |-> FALSE,
     public_key |-> PubKeyOf(s.id),
     data |-> [t |-> "Primary", body |-> SvcDescriptors, prev |-> s.last_sig]]

\* Service::publish_data_buff: the next data object, chained from last_sig
DataObject(s, body) ==
    [kind |-> "Block", from |-> s.id, id |-> s.data_index + 1, pkr |-> FALSE,
     public_key |-> NoKey,
     data |-> [t |-> "Data", body |-> body, prev |-> s.last_sig]]

\* the service after it has encoded and signed object p
SvcAfter(s, p) ==
    [s EXCEPT !.last_sig = Sign(p),
              !.data_index = IF p.kind = "Block" THEN p.id ELSE @]

----------------------------------------------------------------------------
(* Results and events *)

Ok(v) == [ok |-> TRUE, val |-> v]

Err(e) == [ok |-> FALSE, err |-> e]

EvNone == [t |-> "None"]

Ev(t, id) == [t |-> t, id |-> id]

EvReceivedData(id, sig) == [t |-> "ReceivedData", id |-> id, sig |-> sig]

Datagram(to, data) == [to |-> to, data |-> data]

----------------------------------------------------------------------------
(* Engine::new *)

\* faulty variant: the primary page is not put into the page store
EngineNewNoStore(fresh, st) ==
    LET s0  == ServiceBuild(fresh, st)
        p   == PrimaryPage(s0)
    IN  [svc |-> SvcAfter(s0, p),
         pri |-> Sign(p),
         req_id |-> 0,
         store |-> SetLast(st, ObjectInfo(p.id, 0, Sign(p)))]

\* a store or core operation of Engine::new failed: the error is returned and
\* there is no engine (the store passed in is dropped with the call)
NoEngine(fresh, st) ==
    [svc |-> ServiceBuild(fresh, st), pri |-> NoSig, req_id |-> 0, store |-> st]

\* the engine constructed over store st: its service, pri, req_id and store
EngineNew(fresh, st) ==
    LET s0  == ServiceBuild(fresh, st)
        p   == PrimaryPage(s0)
        sig == Sign(p)
        published == ObjectInfo(p.id, 0, sig)
    IN  [svc |-> SvcAfter(s0, p),
         pri |-> sig,
         req_id |-> 0,
         store |-> StorePage(SetLast(st, published), sig, p)]

\* Engine::next_req_id: wrapping_add(1)
NextReqId(r) == (r + 1) % U16

----------------------------------------------------------------------------
(* Engine::register *)

\* generate_primary(): a new primary page is published, the last pointer set,
\* the page stored and pri replaced
GeneratePrimary(s, st) ==
    LET p   == PrimaryPage(s)
        sig == Sign(p)
    IN  [svc |-> SvcAfter(s, p),
         pri |-> sig,
         store |-> StorePage(SetLast(st, ObjectInfo(p.id, 0, sig)), sig, p),
         page |-> p]

\* faulty variant: a new primary page is generated and pointed at, not stored
RegisterPageUnstored(s, sig, st) ==
    LET p == PrimaryPage(s)
    IN  [svc |-> SvcAfter(s, p),
         pri |-> Sign(p),
         store |-> SetLast(st, ObjectInfo(p.id, 0, Sign(p))),
         page |-> p]

\* the primary page register() transmits: the page stored under pri, a newly
\* generated one when the store has none
RegisterPage(s, sig, st) ==
    IF HasPage(st, sig)
    THEN [svc |-> s, pri |-> sig, store |-> st, page |-> FetchPage(st, sig)]
    ELSE GeneratePrimary(s, st)

----------------------------------------------------------------------------
(* Engine::request *)

\* some stored peer has this address
KnownPeerAddr(st, addr) == \E q \in DOMAIN st.peers : st.peers[q].addr = addr

\* the request request() encodes: PUB_KEY_REQUEST and our public key for unrecognised addresses
RequestMsg(st, self, addr, r, data) ==
    IF KnownPeerAddr(st, addr)
    THEN NetRequest(self, r, data, FALSE, NoKey)
    ELSE NetRequest(self, r, data, TRUE, PubKeyOf(self))

----------------------------------------------------------------------------
(* Engine::discover *)

\* the destination of a datagram handed to Communications::broadcast
Broadcast == "broadcast"

\* faulty variant: the request goes out without flag and key
DiscoverMsgPlain(self, r, body, opts) ==
    NetRequest(self, r, [t |-> "Discover", body |-> body, opts |-> opts], FALSE, NoKey)

\* the request discover() encodes: PUB_KEY_REQUEST | NO_PERSIST, our public key attached
DiscoverMsg(self, r, body, opts) ==
    NetRequest(self, r, [t |-> "Discover", body |-> body, opts |-> opts], TRUE, PubKeyOf(self))

\* the outcomes of Communications::broadcast: accepted, an error, and the
\* unimplemented!() of the UDP socket bound to a non-IPv4 address
BroadcastOutcomes == {"ok", "error", "unimplemented"}

----------------------------------------------------------------------------
(* Engine::publish *)

\* faulty variant: forwards to every peer with a known address
ForwardedAll(st) == {q \in DOMAIN st.peers : st.peers[q].addr # NoAddr}

\* faulty variant: publish() forwards to nobody
ForwardedNone(st) == {}

\* the peers publish() forwards to: subscriber = true and a known address
Forwarded(st) == {q \in DOMAIN st.peers : st.peers[q].subscriber /\ st.peers[q].addr # NoAddr}

\* the orders in which the peers() iterator may yield the peers of set S
Orders(S) == {f \in [1..Cardinality(S) -> S] : \A i, j \in 1..Cardinality(S) : f[i] = f[j] => i = j}

\* faulty variant: the last pointer is set but the object is not stored
PublishStoreLastOnly(st, s, p) == SetLast(st, ObjectInfo(s.version, p.id, Sign(p)))

\* the store after publish() has set the last pointer and stored object p
PublishStore(st, s, p) == StorePage(SetLast(st, ObjectInfo(s.version, p.id, Sign(p))), Sign(p), p)

\* the datagrams of the forwarding loop that visits the peers in this order and
\* whose first n sends succeed
PublishSends(st, order, n, p) == [i \in 1..n |-> Datagram(st.peers[order[i]].addr, p)]

\* what publish() returns when n of the sends to `total` subscribers succeeded before one failed
PublishResult(n, total, sig) == IF n = total THEN Ok(sig) ELSE Err("Comms")

----------------------------------------------------------------------------
(* Engine::subscribe *)

\* faulty variant: the subscription state is not updated
SubscribePeerKeep(p, r) == p

\* the peer record after subscribe() has allocated request id r
SubscribePeer(p, r) == [p EXCEPT !.subscribed = Subscribing(r)]

----------------------------------------------------------------------------
(* Engine::handle_req *)

\* Application::matches: an empty filter, or a descriptor of the filter is one of ours
AppMatches(info, body) == body = {} \/ body \cap info # {}

\* peer information carried by a request or response: key and address are updated
LearnPeer(st, msg, from) ==
    IF msg.public_key # NoKey
    THEN UpdatePeer(st, msg.from,
            [GetPeer(st, msg.from) EXCEPT !.keys = msg.public_key, !.addr = from])
    ELSE st

RespNone == [t |-> "None"]

RespNet(body) == [t |-> "Net", body |-> body]

RespPage(p) == [t |-> "Page", page |-> p]

Handled(st, resp, evt) == [store |-> st, resp |-> resp, evt |-> evt, panic |-> FALSE]

Panicked(st) == [store |-> st, resp |-> RespNone, evt |-> EvNone, panic |-> TRUE]

\* faulty variant: every Discover request is answered
HandleDiscoverAlways(st, self, sig, d) ==
    IF HasPage(st, sig) THEN Handled(st, RespPage(FetchPage(st, sig)), EvNone)
    ELSE Handled(st, RespNone, EvNone)

\* the Discover arm
HandleDiscover(st, self, sig, d) ==
    LET matches == AppMatches(SvcDescriptors, d.body) \/ (d.opts \cap SvcPublicOptions # {})
    IN  IF ~matches THEN Handled(st, RespNone, EvNone)
        ELSE IF HasPage(st, sig) THEN Handled(st, RespPage(FetchPage(st, sig)), EvNone)
        ELSE Handled(st, RespNone, EvNone)

\* faulty variant: the subscriber's address is not recorded
HandleSubscribeNoAddr(st, msg, from) ==
    Handled(UpdatePeer(st, msg.from, [GetPeer(st, msg.from) EXCEPT !.subscriber = TRUE]),
            RespNet(Status("Ok")), Ev("SubscribeFrom", msg.from))

\* faulty variant: the request also marks us as subscribed to the sender
HandleSubscribeBoth(st, msg, from) ==
    Handled(UpdatePeer(st, msg.from,
                [GetPeer(st, msg.from) EXCEPT !.subscriber = TRUE, !.addr = from,
                                              !.subscribed = Subscribed]),
            RespNet(Status("Ok")), Ev("SubscribeFrom", msg.from))

\* the Subscribe(id) arm for id = our id
HandleSubscribe(st, msg, from) ==
    Handled(UpdatePeer(st, msg.from,
                [GetPeer(st, msg.from) EXCEPT !.subscriber = TRUE, !.addr = from]),
            RespNet(Status("Ok")), Ev("SubscribeFrom", msg.from))

\* faulty variant: the subscriber flag is left as it was
HandleUnsubscribeKeep(st, msg) ==
    Handled(UpdatePeer(st, msg.from, GetPeer(st, msg.from)),
            RespNet(Status("Ok")), Ev("UnsubscribeFrom", msg.from))

\* the Unsubscribe(id) arm for id = our id
HandleUnsubscribe(st, msg) ==
    Handled(UpdatePeer(st, msg.from, [GetPeer(st, msg.from) EXCEPT !.subscriber = FALSE]),
            RespNet(Status("Ok")), Ev("UnsubscribeFrom", msg.from))

HandleReq(st0, self, sig, from, msg) ==
    LET st == LearnPeer(st0, msg, from)
        d  == msg.data
    IN  CASE d.t \in {"Hello", "Ping"} -> Handled(st, RespNet(Status("Ok")), EvNone)
          [] d.t = "Discover" -> HandleDiscover(st, self, sig, d)
          [] d.t = "Query" /\ d.id = self ->
                IF HasPage(st, sig) THEN Handled(st, RespPage(FetchPage(st, sig)), EvNone)
                ELSE Handled(st, RespNet(Status("InvalidRequest")), EvNone)
          [] d.t = "Subscribe" /\ d.id = self -> HandleSubscribe(st, msg, from)
          [] d.t = "Unsubscribe" /\ d.id = self -> HandleUnsubscribe(st, msg)
          [] OTHER -> Handled(st, RespNet(Status("InvalidRequest")), EvNone)

----------------------------------------------------------------------------
(* Engine::handle_resp *)

\* faulty variant: the request id is not compared
MatchesAnyId(cur, kind, rid, body) == cur.s = kind /\ body.t = "Status"

\* the response is a status with the request id the state cur waits for
Matches(cur, kind, rid, body) == cur.s = kind /\ body.t = "Status" /\ rid = cur.id

\* the subscription state the match leaves for a peer in state cur
RespState(cur, rid, body) ==
    IF Matches(cur, "Subscribing", rid, body)
    THEN (IF body.st = "Ok" THEN Subscribed ELSE cur)
    ELSE IF Matches(cur, "Unsubscribing", rid, body)
    THEN (IF body.st = "Ok" THEN SubNone ELSE cur)
    ELSE cur

\* faulty variant: no event is raised
RespEventNone(cur, rid, body, id) == EvNone

\* the event of the match
RespEvent(cur, rid, body, id) ==
    IF Matches(cur, "Subscribing", rid, body) /\ body.st = "Ok" THEN Ev("SubscribedTo", id)
    ELSE IF Matches(cur, "Unsubscribing", rid, body) /\ body.st = "Ok" THEN Ev("UnsubscribedTo", id)
    ELSE EvNone

\* faulty variant: a response is acknowledged with a status response
HandleRespAnswered(st0, from, msg) ==
    IF ~HasPeer(st0, msg.from) THEN Panicked(st0)
    ELSE
    LET peer == st0.peers[msg.from]
        st   == LearnPeer(st0, msg, from)
        cur  == peer.subscribed
        new  == RespState(cur, msg.id, msg.data)
    IN  IF msg.data.t # "Status" THEN Panicked(st)
        ELSE IF new # cur
        THEN Handled(UpdatePeer(st, msg.from, [st.peers[msg.from] EXCEPT !.subscribed = new]),
                     RespNet(Status("Ok")), RespEvent(cur, msg.id, msg.data, msg.from))
        ELSE Handled(st, RespNet(Status("Ok")), RespEvent(cur, msg.id, msg.data, msg.from))

HandleResp(st0, from, msg) ==
    IF ~HasPeer(st0, msg.from) THEN Panicked(st0)          \* panic!()
    ELSE
    LET peer == st0.peers[msg.from]
        st   == LearnPeer(st0, msg, from)
        cur  == peer.subscribed
        new  == RespState(cur, msg.id, msg.data)
    IN  IF msg.data.t # "Status" THEN Panicked(st)          \* todo!()
        ELSE IF new # cur
        THEN Handled(UpdatePeer(st, msg.from, [st.peers[msg.from] EXCEPT !.subscribed = new]),
                     RespNone, RespEvent(cur, msg.id, msg.data, msg.from))
        ELSE Handled(st, RespNone, RespEvent(cur, msg.id, msg.data, msg.from))

----------------------------------------------------------------------------
(* Engine::handle_page *)

HandlePage(st, page) ==
    LET known == HasPeer(st, page.from)
        info  == page.data.t
    IN  CASE ~known /\ info = "Primary" ->
                Handled(UpdatePeer(st, page.from, [DefaultPeer EXCEPT !.keys = page.public_key]),
                        RespNet(Status("Ok")), Ev("Discover", page.from))
          [] known /\ info = "Primary" ->
                Handled(st, RespNet(Status("Ok")), EvNone)
          [] known /\ info = "Data" /\ ~PeerSubscribed(st.peers[page.from]) ->
                Handled(st, RespNet(Status("InvalidRequest")), EvNone)
          [] known /\ info = "Data" ->
                Handled(st, RespNet(Status("Ok")), EvReceivedData(page.from, Sign(page)))
          [] OTHER ->
                Handled(st, RespNet(Status("InvalidRequest")), EvNone)

----------------------------------------------------------------------------
(* Engine::handle *)

\* faulty variant: no packet is taken for our own
OwnPacketNever(self, msg) == FALSE

\* the drop rule: the object's id is the engine's own
OwnPacket(self, msg) == msg.from = self

\* bytes that are no object at all
Garbage == [kind |-> "Garbage", cut |-> FALSE]

\* the first N bytes of a datagram that holds an object larger than N: recv
\* fills the N-byte buffer and the rest of the datagram is discarded
Truncated == [kind |-> "Garbage", cut |-> TRUE]

\* a parser that takes any framed object, whatever key it carries
ContainerParseUnchecked(data) == data.kind # "Garbage"

\* Container::parse(data, &self.store) followed by NetMessage::parse: the bytes
\* frame an object, and a public key the object carries derives the object's
\* identifier (the collaborator's verification of a self-signed object)
ContainerParse(data) ==
    /\ data.kind # "Garbage"
    /\ data.public_key # NoKey => IdOfKey(data.public_key) = data.from

\* the dispatch on the base kind, for an object that parsed and is not our own
Dispatch(st, self, sig, from, msg) ==
    CASE msg.kind = "Request"  -> HandleReq(st, self, sig, from, msg)
      [] msg.kind = "Response" -> HandleResp(st, from, msg)
      [] msg.kind \in {"Page", "Block"} -> HandlePage(st, msg)

\* faulty variant: the response never carries our public key
ReplyNoKey(self, from, msg, resp) ==
    CASE resp.t = "Net" -> <<Datagram(from, NetResponse(self, msg.id, resp.body, NoKey))>>
      [] resp.t = "Page" -> <<Datagram(from, resp.page)>>
      [] OTHER -> << >>

\* faulty variant: the response is sent twice
ReplyTwice(self, from, msg, resp) ==
    CASE resp.t = "Net" ->
            <<Datagram(from, NetResponse(self, msg.id, resp.body, NoKey)),
              Datagram(from, NetResponse(self, msg.id, resp.body, NoKey))>>
      [] resp.t = "Page" -> <<Datagram(from, resp.page)>>
      [] OTHER -> << >>

\* faulty variant: the response does not carry the request's id
ReplyIdZero(self, from, msg, resp) ==
    CASE resp.t = "Net" ->
            <<Datagram(from, NetResponse(self, 0, resp.body,
                    IF msg.kind = "Request" /\ msg.pkr THEN PubKeyOf(self) ELSE NoKey))>>
      [] resp.t = "Page" -> <<Datagram(from, resp.page)>>
      [] OTHER -> << >>

\* the datagram handle() sends for the handler's response, <<>> for none
Reply(self, from, msg, resp) ==
    CASE resp.t = "Net" ->
            <<Datagram(from, NetResponse(self, msg.id, resp.body,
                    IF msg.kind = "Request" /\ msg.pkr THEN PubKeyOf(self) ELSE NoKey))>>
      [] resp.t = "Page" -> <<Datagram(from, resp.page)>>
      [] OTHER -> << >>

----------------------------------------------------------------------------
(* Engine::update *)

\* update(): the housekeeping step does nothing and returns Event::None
Update == Ok(EvNone)

----------------------------------------------------------------------------
(* Inputs *)

\* the engine whose operations the host and the network drive
SUT == 1

\* the peer service the engine subscribes to and that sends every kind of object
Peer == 3

\* a service that is none of the above: the identity of newly generated keys
Stranger == 4

\* values of req_id at the start: 0 after construction, and close to the wrap
\* after a run of discover() calls, which change nothing but the counter
InitReqIds == {0, U16 - 2}

\* the request ids responses carry: the first two allocated from each start
RespIds == {(i + k) % U16 : i \in InitReqIds, k \in {1, 2}}

\* a further allocation is within the bound
CanAlloc(n) == n < MaxRequests

\* a data body whose object does not fit the N-byte buffer of the service
TooLarge == "larger than N"

\* data bodies handed to publish()
Bodies == {"b1", TooLarge}

\* Discover filters: descriptor sets and option sets
Filters == {<<{}, {}>>, <<{"Temperature/R"}, {}>>, <<{"Co2/R"}, {"name"}>>}



ReqBodies ==
    {[t |-> "Hello"], [t |-> "Ping"], [t |-> "Locate"]}
    \cup {[t |-> k, id |-> i] : k \in {"Query", "Subscribe", "Unsubscribe"}, i \in {SUT, 2}}
    \cup {[t |-> "Discover", body |-> f[1], opts |-> f[2]] : f \in Filters}

RespBodies == {Status("Ok"), Status("InvalidRequest"), [t |-> "NoResult"]}

\* pages and data objects of service f
PagesOf(f) ==
    {[kind |-> "Page", from |-> f, id |-> 0, pkr |-> FALSE, public_key |-> PubKeyOf(f),
      data |-> [t |-> "Primary", body |-> {}, prev |-> NoSig]],
     [kind |-> "Block", from |-> f, id |-> 1, pkr |-> FALSE, public_key |-> NoKey,
      data |-> [t |-> "Data", body |-> "b1", prev |-> NoSig]],
     [kind |-> "Page", from |-> f, id |-> 0, pkr |-> FALSE, public_key |-> NoKey,
      data |-> [t |-> "Secondary", body |-> {}, prev |-> NoSig]]}

\* requests that are also sent with PUB_KEY_REQUEST and the sender's public key
KeyedBodies ==
    {[t |-> "Hello"], [t |-> "Subscribe", id |-> SUT], [t |-> "Subscribe", id |-> 2],
     [t |-> "Discover", body |-> {}, opts |-> {}]}

\* request ids at the ends of the u16 range, carried by Hello and Ping requests
EdgeReqIds == {0, U16 - 1}

\* objects the peer service sends
FromPeer ==
    {NetRequest(Peer, 1, d, FALSE, NoKey) : d \in ReqBodies}
    \cup {NetRequest(Peer, 1, d, TRUE, PubKeyOf(Peer)) : d \in KeyedBodies}
    \cup {NetRequest(Peer, i, d, FALSE, NoKey) : i \in EdgeReqIds, d \in {[t |-> "Hello"], [t |-> "Ping"]}}
    \cup {NetResponse(Peer, i, d, NoKey) : i \in RespIds, d \in RespBodies}
    \cup {NetResponse(Peer, i, Status("Ok"), PubKeyOf(Peer)) : i \in RespIds}
    \cup PagesOf(Peer)

\* objects the peer service sends after it has moved to the second address
FromPeerMoved ==
    {NetRequest(Peer, 1, [t |-> "Subscribe", id |-> SUT], FALSE, NoKey),
     NetRequest(Peer, 1, [t |-> "Hello"], TRUE, PubKeyOf(Peer)),
     NetResponse(Peer, 1, Status("Ok"), PubKeyOf(Peer))}
    \cup {NetRequest(Peer, i, [t |-> "Ping"], FALSE, NoKey) : i \in EdgeReqIds}

\* objects the second engine sends: it subscribes
FromSecond ==
    {NetRequest(2, 1, [t |-> "Subscribe", id |-> SUT], FALSE, NoKey)}

\* the engine's own objects, received back from a broadcast
FromSelf ==
    {NetRequest(SUT, 1, [t |-> "Subscribe", id |-> SUT], TRUE, PubKeyOf(SUT)),
     NetResponse(SUT, 1, Status("Ok"), PubKeyOf(SUT))}
    \cup PagesOf(SUT)

\* objects under the peer's identifier that carry the key of another service
Forged ==
    {NetRequest(Peer, 1, [t |-> "Hello"], TRUE, PubKeyOf(Stranger)),
     NetResponse(Peer, 1, Status("Ok"), PubKeyOf(Stranger)),
     [kind |-> "Page", from |-> Peer, id |-> 0, pkr |-> FALSE, public_key |-> PubKeyOf(Stranger),
      data |-> [t |-> "Primary", body |-> {}, prev |-> NoSig]]}

\* the datagrams that reach the engine: <<source address, content>>
Inbound ==
    ({"a1"} \X FromPeer) \cup ({"a2"} \X FromPeerMoved)
    \cup ({"a1"} \X FromSecond) \cup ({"a1"} \X FromSelf)
    \cup ({"a1"} \X Forged) \cup (Addrs \X {Garbage}) \cup ({"a1"} \X {Truncated})

----------------------------------------------------------------------------
(* State *)

Snapshot(e) ==
    [store |-> store[e], req_id |-> req_id[e], pri |-> pri[e], svc |-> svc[e],
     returned |-> returned[e]]

\* no call in progress: the host has taken the result of the last one
Idle == [name |-> "idle"]

\* the store an earlier run of the engine has left: it holds the identity keys,
\* the primary page of that run and the one data object it published
EarlierRun ==
    LET e0 == EngineNew(SUT, [MemoryStoreNew EXCEPT !.our_keys = PubKeyOf(SUT)])
        p  == DataObject(e0.svc, "b1")
    IN  PublishStore(e0.store, SvcAfter(e0.svc, p), p)

\* the engine constructed as the state starts from: over a fresh store, and
\* over the store of an earlier run in which the host has also recorded a peer
\* through Store::update_peer; the third component is the service whose keys
\* key generation yields
InitStores ==
    {<<0, MemoryStoreNew, SUT>>,
     <<U16 - 2,
       UpdatePeer(EarlierRun, Peer, [DefaultPeer EXCEPT !.subscribed = Unsubscribing(1)]),
       Stranger>>}

Init ==
    \E i \in InitStores, fail \in {"none", "Store", "Core"} :
        LET new == [e \in Engines |-> IF e # SUT THEN EngineNew(e, MemoryStoreNew)
                                       ELSE IF fail = "none" THEN EngineNew(i[3], i[2])
                                       ELSE NoEngine(i[3], i[2])]
        IN  /\ svc = [e \in Engines |-> new[e].svc]
            /\ pri = [e \in Engines |-> new[e].pri]
            /\ req_id = [e \in Engines |-> IF e = SUT THEN i[1] ELSE new[e].req_id]
            /\ store = [e \in Engines |-> new[e].store]
            /\ running = [e \in Engines |-> e # SUT \/ fail = "none"]
            /\ op = [name |-> "new", eng |-> SUT, fresh |-> i[3]]
            /\ pre = [store |-> i[2], req_id |-> 0, pri |-> NoSig,
                      svc |-> ServiceBuild(i[3], i[2]), returned |-> NoSig]
            /\ ret = IF fail = "none" THEN Ok(new[SUT].pri) ELSE Err(fail)
            /\ tx = << >>
            /\ returned = [e \in Engines |-> new[e].pri]
            /\ allocated = [e \in Engines |-> 0]
            /\ net = [a \in Addrs |-> << >>]
            /\ emitted = [e \in Engines |-> << >>]

----------------------------------------------------------------------------
(* Operations.  Each is one call of the host into the engine; Return is the  *)
(* host taking the result, after which the next call can be made.            *)

\* publish(body, opts): the peers are visited in `order`, the first n sends succeed
Publish(e, body, order, n) ==
    LET p   == DataObject(svc[e], body)
        s1  == SvcAfter(svc[e], p)
        st1 == PublishStore(store[e], s1, p)
        big == body = TooLarge          \* publish_data_buff fails: map_err(Core)?
    IN  /\ op = Idle /\ running[e]
        /\ svc[e].data_index < MaxPublish
        /\ order \in IF big THEN {<< >>} ELSE Orders(Forwarded(st1))
        /\ n \in 0..Len(order)
        /\ svc' = IF big THEN svc ELSE [svc EXCEPT ![e] = s1]
        /\ store' = IF big THEN store ELSE [store EXCEPT ![e] = st1]
        /\ tx' = PublishSends(st1, order, n, p)
        /\ ret' = IF big THEN Err("Core") ELSE PublishResult(n, Len(order), Sign(p))
        /\ returned' = IF n = Len(order) /\ ~big THEN [returned EXCEPT ![e] = Sign(p)] ELSE returned
        /\ op' = [name |-> "publish", eng |-> e, body |-> body, obj |-> p,
                  order |-> order, subs |-> Len(order), sent |-> n]
        /\ pre' = Snapshot(e)
        /\ UNCHANGED <<pri, req_id, running, allocated>>

\* subscribe(id, addr); sendOk: Communications::send succeeds
Subscribe(e, id, addr, sendOk) ==
    LET r   == NextReqId(req_id[e])
        st1 == UpdatePeer(store[e], id, SubscribePeer(GetPeer(store[e], id), r))
        req == RequestMsg(st1, svc[e].id, addr, r, [t |-> "Subscribe", id |-> id])
    IN  /\ op = Idle /\ running[e]
        /\ CanAlloc(allocated[e])
        /\ req_id' = [req_id EXCEPT ![e] = r]
        /\ store' = [store EXCEPT ![e] = st1]
        /\ tx' = IF sendOk THEN <<Datagram(addr, req)>> ELSE << >>
        /\ ret' = IF sendOk THEN Ok([t |-> "Unit"]) ELSE Err("Comms")
        /\ op' = [name |-> "subscribe", eng |-> e, id |-> id, addr |-> addr]
        /\ pre' = Snapshot(e)
        /\ allocated' = [allocated EXCEPT ![e] = @ + 1]
        /\ UNCHANGED <<svc, pri, running, returned>>

\* register(addr); sendOk: Communications::send succeeds
Register(e, addr, sendOk) ==
    LET g == RegisterPage(svc[e], pri[e], store[e])
    IN  /\ op = Idle /\ running[e]
        /\ svc' = [svc EXCEPT ![e] = g.svc]
        /\ pri' = [pri EXCEPT ![e] = g.pri]
        /\ store' = [store EXCEPT ![e] = g.store]
        /\ tx' = IF sendOk THEN <<Datagram(addr, g.page)>> ELSE << >>
        /\ ret' = IF sendOk THEN Ok(Sign(g.page)) ELSE Err("Comms")
        /\ op' = [name |-> "register", eng |-> e, addr |-> addr]
        /\ pre' = Snapshot(e)
        /\ UNCHANGED <<req_id, running, returned, allocated>>

\* discover(body, opts); bc: the outcome of Communications::broadcast
Discover(e, body, opts, bc) ==
    LET r == NextReqId(req_id[e])
    IN  /\ op = Idle /\ running[e]
        /\ CanAlloc(allocated[e])
        /\ bc \in BroadcastOutcomes
        /\ req_id' = [req_id EXCEPT ![e] = r]
        /\ running' = [running EXCEPT ![e] = bc # "unimplemented"]
        /\ tx' = IF bc = "ok" THEN <<Datagram(Broadcast, DiscoverMsg(svc[e].id, r, body, opts))>>
                  ELSE << >>
        /\ ret' = CASE bc = "ok" -> Ok([t |-> "ReqId", id |-> r])
                    [] bc = "error" -> Err("Comms")
                    [] OTHER -> Err("panic")
        /\ op' = [name |-> "discover", eng |-> e, body |-> body, opts |-> opts]
        /\ pre' = Snapshot(e)
        /\ allocated' = [allocated EXCEPT ![e] = @ + 1]
        /\ UNCHANGED <<svc, pri, store, returned>>

\* handle(from, data) of a datagram that fails Container::parse or NetMessage::parse
HandleMalformed(e, from, data) ==
    /\ op = Idle /\ running[e]
    /\ ~ContainerParse(data)
    /\ tx' = << >>
    /\ ret' = Err("Core")
    /\ op' = [name |-> "handle", eng |-> e, from |-> from, msg |-> [kind |-> "Malformed"],
              data |-> data, taken |-> 1]
    /\ pre' = Snapshot(e)
    /\ UNCHANGED <<svc, pri, req_id, store, running, returned, allocated>>

\* handle(from, data) of an object that parses; sendOk: Communications::send succeeds
Handle(e, from, msg, sendOk) ==
    LET own == OwnPacket(svc[e].id, msg)
        h   == IF own THEN Handled(store[e], RespNone, EvNone)
               ELSE Dispatch(store[e], svc[e].id, pri[e], from, msg)
        out == Reply(svc[e].id, from, msg, h.resp)
    IN  /\ op = Idle /\ running[e]
        /\ ContainerParse(msg)
        /\ sendOk \/ out # << >>
        /\ store' = [store EXCEPT ![e] = h.store]
        /\ running' = [running EXCEPT ![e] = ~h.panic]
        /\ tx' = IF sendOk THEN out ELSE << >>
        /\ ret' = IF h.panic THEN Err("panic") ELSE IF sendOk THEN Ok(h.evt) ELSE Err("Comms")
        /\ op' = [name |-> "handle", eng |-> e, from |-> from, msg |-> msg, taken |-> 1]
        /\ pre' = Snapshot(e)
        /\ UNCHANGED <<svc, pri, req_id, returned, allocated>>

\* tick() when Communications::recv has no datagram (got = "none": update() runs)
\* or fails (got = "error"); a tick() whose recv yields a datagram is one recv
\* followed by handle(), the actions Handle and HandleMalformed
Tick(e, got) ==
    /\ op = Idle /\ running[e]
    /\ tx' = << >>
    /\ ret' = IF got = "none" THEN Update ELSE Err("Comms")
    /\ op' = [name |-> "tick", eng |-> e, recv |-> got, taken |-> 0]
    /\ pre' = Snapshot(e)
    /\ UNCHANGED <<svc, pri, req_id, store, running, returned, allocated>>

\* the host takes the result of the call; the engine is left as it is
Return ==
    /\ op # Idle
    /\ op' = Idle
    /\ pre' = Idle
    /\ ret' = Idle
    /\ tx' = << >>
    /\ UNCHANGED <<svc, pri, req_id, store, running, returned, allocated>>

\* one engine driven by its host, the datagrams it receives drawn from Inbound
Next ==
    \/ \E b \in Bodies, o \in UNION {Orders(S) : S \in SUBSET Ids}, n \in 0..Cardinality(Ids) :
            Publish(SUT, b, o, n) /\ UNCHANGED <<net, emitted>>
    \/ \E a \in Addrs, ok \in BOOLEAN : Subscribe(SUT, Peer, a, ok) /\ UNCHANGED <<net, emitted>>
    \/ \E a \in Addrs, ok \in BOOLEAN : Register(SUT, a, ok) /\ UNCHANGED <<net, emitted>>
    \/ \E f \in Filters, bc \in BroadcastOutcomes :
            Discover(SUT, f[1], f[2], bc) /\ UNCHANGED <<net, emitted>>
    \/ \E i \in Inbound : HandleMalformed(SUT, i[1], i[2]) /\ UNCHANGED <<net, emitted>>
    \/ \E i \in Inbound, ok \in BOOLEAN : Handle(SUT, i[1], i[2], ok) /\ UNCHANGED <<net, emitted>>
    \/ \E got \in {"none", "error"} : Tick(SUT, got) /\ UNCHANGED <<net, emitted>>
    \/ Return /\ UNCHANGED <<net, emitted>>

Spec == Init /\ [][Next]_vars

----------------------------------------------------------------------------
(* Two engines over a network: engine 1 subscribes to engine 2, engine 2     *)
(* publishes, each host loops on tick().  Every send succeeds and a tick()    *)
(* receives one of the datagrams in flight to its engine's address.           *)

\* the address each engine's socket is bound to
AddrOf(e) == IF e = 1 THEN "a1" ELSE "a2"

\* the datagrams of `out` addressed to a, as they arrive: <<source address, object>>
Arriving(out, a, src) ==
    LET mine == SelectSeq(out, LAMBDA d : d.to = a)
    IN  [i \in 1..Len(mine) |-> <<src, mine[i].data>>]

\* the network after the engine at address src has sent the datagrams `out`
Sent(n, src, out) == [a \in Addrs |-> n[a] \o Arriving(out, a, src)]

\* the network after the i-th datagram in flight to address a has been received
Received(n, a, i) ==
    [n EXCEPT ![a] = SubSeq(n[a], 1, i - 1) \o SubSeq(n[a], i + 1, Len(n[a]))]

\* the log of events after a tick() has returned r
Logged(log, r) == IF r.ok /\ r.val # EvNone THEN Append(log, r.val) ELSE log

\* the host of engine 1 calls subscribe(engine 2's id, engine 2's address)
NetSubscribe ==
    /\ req_id[1] < NetMaxSubscribe
    /\ Subscribe(1, 2, AddrOf(2), TRUE)
    /\ net' = Sent(net, AddrOf(1), tx')
    /\ UNCHANGED emitted

\* the host of engine 2 calls publish(body)
NetPublish ==
    /\ svc[2].data_index < NetMaxPublish
    /\ \E b \in Bodies \ {TooLarge}, o \in UNION {Orders(S) : S \in SUBSET Ids} :
           Publish(2, b, o, Len(o))
    /\ net' = Sent(net, AddrOf(2), tx')
    /\ UNCHANGED emitted

\* the host of engine e calls tick()
NetTick(e) ==
    \/ /\ net[AddrOf(e)] = << >>
       /\ Tick(e, "none")
       /\ UNCHANGED <<net, emitted>>
    \/ \E i \in DOMAIN net[AddrOf(e)] :
          /\ Handle(e, net[AddrOf(e)][i][1], net[AddrOf(e)][i][2], TRUE)
          /\ net' = Sent(Received(net, AddrOf(e), i), AddrOf(e), tx')
          /\ emitted' = [emitted EXCEPT ![e] = Logged(@, ret')]

NetReturn == Return /\ UNCHANGED <<net, emitted>>

NetInit == Init /\ req_id[1] = 0 /\ running[1]

NetNext ==
    \/ NetSubscribe
    \/ NetPublish
    \/ \E e \in Engines : NetTick(e)
    \/ NetReturn

\* each host keeps calling tick() and taking the results
NetSpec ==
    /\ NetInit
    /\ [][NetNext]_vars
    /\ \A e \in Engines : SF_vars(NetTick(e))
    /\ WF_vars(NetReturn)

----------------------------------------------------------------------------
(* Two engines, each of which subscribes to the other, publishes and ticks.  *)
(* Every send succeeds; a tick() receives one of the datagrams in flight.     *)

\* calls of subscribe() and publish() the two hosts make in all
PairMaxCalls == 3

PairCalls == allocated[1] + allocated[2] + svc[1].data_index + svc[2].data_index

\* the other engine of the pair
Other(e) == IF e = 1 THEN 2 ELSE 1

\* the host of engine e calls subscribe(the other engine's id and address)
PairSubscribe(e) ==
    /\ PairCalls < PairMaxCalls
    /\ Subscribe(e, svc[Other(e)].id, AddrOf(Other(e)), TRUE)
    /\ net' = Sent(net, AddrOf(e), tx')
    /\ UNCHANGED emitted

\* the host of engine e calls publish(body)
PairPublish(e) ==
    /\ PairCalls < PairMaxCalls
    /\ \E o \in UNION {Orders(S) : S \in SUBSET Ids} : Publish(e, "b1", o, Len(o))
    /\ net' = Sent(net, AddrOf(e), tx')
    /\ UNCHANGED emitted

\* the host of engine e calls tick()
PairTick(e) == NetTick(e)

PairReturn == Return /\ UNCHANGED <<net, emitted>>

PairNext ==
    \/ \E e \in Engines : PairSubscribe(e)
    \/ \E e \in Engines : PairPublish(e)
    \/ \E e \in Engines : PairTick(e)
    \/ PairReturn

PairSpec == NetInit /\ [][PairNext]_vars

\* each host keeps calling tick() and taking the results
PairLiveSpec ==
    /\ PairSpec
    /\ \A e \in Engines : SF_vars(PairTick(e))
    /\ WF_vars(PairReturn)

----------------------------------------------------------------------------
(* Vocabulary of the properties *)

\* the last operation was a call of this name
Called(n) == op.name = n

\* the last operation handled an object of this base kind that was not the engine's own
Handling(kind) ==
    /\ Called("handle")
    /\ op.msg.kind = kind
    /\ op.msg.from # svc[op.eng].id

\* the subscription state a store holds for id (None when there is no record)
SubOf(st, id) == GetPeer(st, id).subscribed

\* how many times a log of events holds event ev
Count(log, ev) == Cardinality({i \in DOMAIN log : log[i] = ev})

\* engine e has emitted event ev
Emitted(e, ev) == Count(emitted[e], ev) >= 1

\* the signatures of the first n data objects with body b1 published by a service in state s
RECURSIVE ChainSigs(_, _)
ChainSigs(s, n) ==
    IF n = 0 THEN {}
    ELSE LET p == DataObject(s, "b1")
         IN  {Sign(p)} \cup ChainSigs(SvcAfter(s, p), n - 1)

\* the signatures engine 2 can return from publish()
NetSigs == ChainSigs(EngineNew(2, MemoryStoreNew).svc, NetMaxPublish)

\* how many of the datagrams sent went to address a
SentTo(a) == Cardinality({i \in DOMAIN tx : tx[i].to = a})

----------------------------------------------------------------------------
(* Endpoint kinds (endpoint/kinds.rs)                                        *)

\* ENDPOINT_KINDS: the table of codes and canonical kinds, in table order
ENDPOINT_KINDS ==
    <<<<1, "Temperature">>, <<2, "Humidity">>, <<3, "Pressure">>, <<4, "Co2">>,
      <<5, "State">>, <<6, "Brightness">>, <<7, "Colour">>>>

\* enum Kind: a canonical kind, or Unknown(v)
Kind(name) == [k |-> name, v |-> 0]

KindUnknown(v) == [k |-> "Unknown", v |-> v]

\* From<u16> for Kind: the first table entry with this code, Unknown(v) for none
KindFromU16(v) ==
    LET hits == {i \in DOMAIN ENDPOINT_KINDS : ENDPOINT_KINDS[i][1] = v}
    IN  IF hits # {}
        THEN Kind(ENDPOINT_KINDS[CHOOSE i \in hits : \A j \in hits : i <= j][2])
        ELSE KindUnknown(v)

\* From<&Kind> for u16: Unknown(v) is v, a canonical kind is its table code
U16FromKind(kind) ==
    IF kind.k = "Unknown" THEN kind.v
    ELSE LET hits == {i \in DOMAIN ENDPOINT_KINDS : ENDPOINT_KINDS[i][2] = kind.k}
         IN  ENDPOINT_KINDS[CHOOSE i \in hits : \A j \in hits : i <= j][1]

----------------------------------------------------------------------------
(* Endpoint descriptors and data (endpoint/desc.rs)                          *)

\* iot_option_kinds
ENDPOINT_DESCRIPTOR == 32769
VALUE_BOOL_FALSE == 32770
VALUE_BOOL_TRUE == 32771
VALUE_FLOAT == 32772
VALUE_INT == 32773
VALUE_STRING == 32774
VALUE_RAW == 32775
VALUE_RGB == 32776
ENDPOINT_DESCRIPTOR_LEN == 4

\* EpFlags, as their bits
FlagR == 1
FlagW == 2
FlagRW == 3

\* EpFlags::from_bits_truncate: bits outside R | W are dropped
FromBitsTruncate(bits) == bits % 4

\* LittleEndian::write_u16: the bytes written
WriteU16(v) == <<v % 256, (v \div 256) % 256>>

\* LittleEndian::write_u32, write_i32 and write_f32.  A 32-bit word (u32, i32,
\* or the bit pattern of an f32) is held as the integer its bits are in two's
\* complement; \div rounds down and % is never negative, so these are its bytes
WriteU32(v) == <<v % 256, (v \div 256) % 256, (v \div 65536) % 256, (v \div 16777216) % 256>>

WriteI32(v) == WriteU32(v)

\* &buff[off..]: the slice from offset off; it exists when off <= buff.len()
SliceFrom(buff, off) == SubSeq(buff, off + 1, Len(buff))

\* LittleEndian::read_u16 and read_u32 of a slice that is long enough
ReadU16(b) == b[1] + 256 * b[2]

\* LittleEndian::read_u32, read_i32 and read_f32: the 32-bit word of four bytes
ReadU32(b) ==
    b[1] + 256 * b[2] + 65536 * b[3] + 16777216 * (IF b[4] >= 128 THEN b[4] - 256 ELSE b[4])

ReadI32(b) == ReadU32(b)

\* a read of n bytes at offset off is within the buffer (otherwise the index panics)
CanRead(buff, off, n) == off + n <= Len(buff)

\* EpDescriptor
EpDescriptor(kind, flags) == [kind |-> kind, flags |-> flags]

\* EpDescriptor::encode_len
EpDescriptorEncodeLen(d) == 8

\* EpDescriptor::encode: the bytes written to the start of the buffer
EpDescriptorEncode(d) ==
    WriteU16(ENDPOINT_DESCRIPTOR) \o WriteU16(ENDPOINT_DESCRIPTOR_LEN)
        \o WriteU16(U16FromKind(d.kind)) \o WriteU16(d.flags)

\* the result of a decoder: the output and the number of bytes consumed
Decoded(out, n) == Ok([out |-> out, n |-> n])

\* the outcome of a call that aborts (a failed index, unwrap or overflow check)
Abort == Err("panic")

\* faulty variant: the consumed length leaves out the option header
EpDescriptorDecodeShort(buff, build) ==
    IF ~CanRead(buff, 0, 2) THEN Abort
    ELSE IF ReadU16(buff) # ENDPOINT_DESCRIPTOR THEN Err("InvalidOption")
    ELSE IF ~CanRead(buff, 2, 2) THEN Abort
    ELSE IF ~CanRead(buff, 4, 2) \/ ~CanRead(buff, 6, 2) THEN Abort
    ELSE Decoded(EpDescriptor(KindFromU16(ReadU16(SliceFrom(buff, 4))),
                              FromBitsTruncate(ReadU16(SliceFrom(buff, 6)))),
                 ReadU16(SliceFrom(buff, 2)))

\* EpDescriptor::decode_owned; build: "debug" checks the u16 addition for
\* overflow and panics, "release" wraps
EpDescriptorDecode(buff, build) ==
    IF ~CanRead(buff, 0, 2) THEN Abort
    ELSE IF ReadU16(buff) # ENDPOINT_DESCRIPTOR THEN Err("InvalidOption")
    ELSE IF ~CanRead(buff, 2, 2) THEN Abort
    ELSE IF ReadU16(SliceFrom(buff, 2)) + 4 >= U16 /\ build = "debug" THEN Abort
    ELSE IF ~CanRead(buff, 4, 2) \/ ~CanRead(buff, 6, 2) THEN Abort
    ELSE Decoded(EpDescriptor(KindFromU16(ReadU16(SliceFrom(buff, 4))),
                              FromBitsTruncate(ReadU16(SliceFrom(buff, 6)))),
                 (ReadU16(SliceFrom(buff, 2)) + 4) % U16)

\* IotService::encode_body: the encodings one after the other
RECURSIVE EncodeBody(_)
EncodeBody(endpoints) ==
    IF endpoints = << >> THEN << >>
    ELSE EpDescriptorEncode(Head(endpoints)) \o EncodeBody(Tail(endpoints))

\* IotService::decode_body: decode at index, advance by the length consumed,
\* until the buffer is used up; the first error ends the loop.  The result
\* holds the descriptors and the length each one consumed; `fuel` bounds the
\* iterations of a loop that a consumed length of 0 would keep at one index.
RECURSIVE DecodeBodyFrom(_, _, _, _)
DecodeBodyFrom(buff, index, build, fuel) ==
    IF ~(index < Len(buff)) THEN Ok([out |-> << >>, n |-> << >>])
    ELSE IF fuel = 0 THEN Err("loop")
    ELSE LET r == EpDescriptorDecode(SliceFrom(buff, index), build)
         IN  IF ~r.ok THEN r
             ELSE LET rest == DecodeBodyFrom(buff, index + r.val.n, build, fuel - 1)
                  IN  IF ~rest.ok THEN rest
                      ELSE Ok([out |-> <<r.val.out>> \o rest.val.out,
                               n |-> <<r.val.n>> \o rest.val.n])

DecodeBody(buff, build) == DecodeBodyFrom(buff, 0, build, Len(buff) + 1)

\* EpValue: t is the variant; n holds a Bool (0 or 1), an Int32, or the bit
\* pattern of a Float32; b holds the bytes of Text and Bytes and <<r, g, b>> of Rgb
EpBool(v) == [t |-> "Bool", n |-> IF v THEN 1 ELSE 0, b |-> << >>]

EpInt32(v) == [t |-> "Int32", n |-> v, b |-> << >>]

EpFloat32(bits) == [t |-> "Float32", n |-> bits, b |-> << >>]

EpText(s) == [t |-> "Text", n |-> 0, b |-> s]

EpBytes(s) == [t |-> "Bytes", n |-> 0, b |-> s]

EpRgb(r, g, b) == [t |-> "Rgb", n |-> 0, b |-> <<r, g, b>>]

\* the capacity of the Text and Bytes containers
ValueCapacity == 64

\* core::str::from_utf8 succeeds; the texts considered are ASCII, and the one
\* byte above 127 that inputs hold is 255, which no UTF-8 sequence contains
Utf8Valid(s) == \A i \in DOMAIN s : s[i] < 128

\* EpData::encode_len
EpDataEncodeLen(v) ==
    CASE v.t = "Bool" -> 4
      [] v.t \in {"Float32", "Int32"} -> 8
      [] v.t \in {"Text", "Bytes"} -> 4 + Len(v.b)
      [] v.t = "Rgb" -> 8

\* EpData::encode: the bytes written to the start of the buffer
EpDataEncode(v) ==
    CASE v.t = "Bool" /\ v.n = 1 -> WriteU16(VALUE_BOOL_TRUE) \o WriteU16(0)
      [] v.t = "Bool" /\ v.n = 0 -> WriteU16(VALUE_BOOL_FALSE) \o WriteU16(0)
      [] v.t = "Float32" -> WriteU16(VALUE_FLOAT) \o WriteU16(4) \o WriteU32(v.n)
      [] v.t = "Int32" -> WriteU16(VALUE_INT) \o WriteU16(4) \o WriteI32(v.n)
      [] v.t = "Text" -> WriteU16(VALUE_STRING) \o WriteU16(Len(v.b) % U16) \o v.b
      [] v.t = "Bytes" -> WriteU16(VALUE_RAW) \o WriteU16(Len(v.b) % U16) \o v.b
      [] v.t = "Rgb" ->
            WriteU16(VALUE_RGB) \o WriteU16(4)
                \o WriteU32(v.b[1] * 65536 + v.b[2] * 256 + v.b[3])

\* the value arm of EpData::decode_owned for option kind `kind` and payload_len `len`
EpDataValue(buff, kind, len) ==
    CASE kind = VALUE_BOOL_FALSE -> Ok(EpBool(FALSE))
      [] kind = VALUE_BOOL_TRUE -> Ok(EpBool(TRUE))
      [] kind = VALUE_FLOAT ->
            IF CanRead(buff, 4, 4) THEN Ok(EpFloat32(ReadU32(SliceFrom(buff, 4)))) ELSE Abort
      [] kind = VALUE_INT ->
            IF CanRead(buff, 4, 4) THEN Ok(EpInt32(ReadI32(SliceFrom(buff, 4)))) ELSE Abort
      [] kind = VALUE_STRING ->
            IF Utf8Valid(SliceFrom(buff, 4)) /\ Len(buff) - 4 <= ValueCapacity
            THEN Ok(EpText(SliceFrom(buff, 4))) ELSE Abort
      [] kind = VALUE_RAW ->
            IF ~CanRead(buff, 4, len) THEN Abort
            ELSE IF len > ValueCapacity THEN Err("InvalidOption")
            ELSE Ok(EpBytes(SubSeq(buff, 5, 4 + len)))
      [] kind = VALUE_RGB ->
            IF CanRead(buff, 4, 4)
            THEN LET u == ReadU32(SliceFrom(buff, 4))
                 IN  Ok(EpRgb((u \div 65536) % 256, (u \div 256) % 256, u % 256))
            ELSE Abort
      [] OTHER -> Err("InvalidOption")

\* faulty variant: the consumed length is the payload length alone
EpDataDecodeShort(buff) ==
    IF ~CanRead(buff, 0, 2) \/ ~CanRead(buff, 2, 2) THEN Abort
    ELSE LET len == ReadU16(SliceFrom(buff, 2))
             v   == EpDataValue(buff, ReadU16(buff), len)
         IN  IF v.ok THEN Decoded(v.val, len) ELSE v

\* EpData::decode_owned: kind and payload_len are read first, then the value
EpDataDecode(buff) ==
    IF ~CanRead(buff, 0, 2) \/ ~CanRead(buff, 2, 2) THEN Abort
    ELSE LET len == ReadU16(SliceFrom(buff, 2))
             v   == EpDataValue(buff, ReadU16(buff), len)
         IN  IF v.ok THEN Decoded(v.val, len + 4) ELSE v

\* IotData::encode: each entry is encoded at the index the ones before it reached
RECURSIVE IotDataEncode(_)
IotDataEncode(data) ==
    IF data = << >> THEN << >>
    ELSE EpDataEncode(Head(data)) \o IotDataEncode(Tail(data))

\* IotData::parse: decode at index, advance by the length consumed, until the
\* buffer is used up; the first error ends the loop
RECURSIVE IotDataParseFrom(_, _, _)
IotDataParseFrom(buff, index, fuel) ==
    IF ~(index < Len(buff)) THEN Ok([out |-> << >>, n |-> index])
    ELSE IF fuel = 0 THEN Err("loop")
    ELSE LET r == EpDataDecode(SliceFrom(buff, index))
         IN  IF ~r.ok THEN r
             ELSE LET rest == IotDataParseFrom(buff, index + r.val.n, fuel - 1)
                  IN  IF ~rest.ok THEN rest
                      ELSE Ok([out |-> <<r.val.out>> \o rest.val.out, n |-> rest.val.n])

IotDataParse(buff) == IotDataParseFrom(buff, 0, Len(buff) + 1)

----------------------------------------------------------------------------
(* The codecs applied to inputs                                              *)

\* descriptors per encoded sequence
MaxDescs == 2

\* the longest of the short texts and byte strings
MaxText == 2

\* the largest of the small kind codes
MaxCode == 9

\* endpoint values per published data body
MaxValues == 2

CanonicalKinds == {Kind(ENDPOINT_KINDS[i][2]) : i \in DOMAIN ENDPOINT_KINDS}

\* descriptors of the canonical kinds with flags R, W, RW
Descriptors == {EpDescriptor(k, f) : k \in CanonicalKinds, f \in {FlagR, FlagW, FlagRW}}

DescriptorSeqs == UNION {[1..n -> Descriptors] : n \in 0..MaxDescs}

\* texts: ASCII strings up to MaxText bytes and one that fills the container
Strings(c) == {[i \in 1..n |-> c + (i % 2)] : n \in (0..MaxText) \cup {ValueCapacity}}

\* the endpoint values encoded: both booleans, integers at the ends of the
\* i32 range, bit patterns of floats (0.0, 10.45, a NaN, all bits set), texts, byte
\* strings and colours
Values ==
    {EpBool(TRUE), EpBool(FALSE)}
    \cup {EpInt32(v) : v \in {0, 1, -1, 258, 2147483647, -2147483647 - 1}}
    \cup {EpFloat32(v) : v \in {0, 1093088051, 2143289345, -1}}
    \cup {EpText(s) : s \in Strings(97)}
    \cup {EpBytes(s) : s \in Strings(254)}
    \cup {EpRgb(10, 20, 30), EpRgb(0, 0, 0), EpRgb(255, 255, 255), EpRgb(1, 2, 3)}

\* one value of each type, for bodies of mixed values
MixedValues ==
    {EpBool(TRUE), EpInt32(258), EpFloat32(1093088051), EpText(<<98, 97>>),
     EpBytes(<<255, 254>>), EpRgb(10, 20, 30)}

ValueSeqs == UNION {[1..n -> MixedValues] : n \in 0..MaxValues}

\* the proper prefixes of a byte string
Prefixes(b) == {SubSeq(b, 1, n) : n \in 0..(Len(b) - 1)}

\* option headers with a kind no decoder knows, with and without a payload
UnknownKind == {WriteU16(k) \o WriteU16(n) \o p : k \in {0, 9, 32777}, n \in {0, 4},
                                                p \in {<< >>, <<1, 0, 1, 0>>}}

\* truncated inputs: prefixes of encodings, and payloads shorter than the
\* header's payload_len announces
TruncatedDescriptors ==
    UNION {Prefixes(EpDescriptorEncode(d)) \ {<< >>} : d \in {EpDescriptor(Kind("Co2"), FlagRW)}}

TruncatedData ==
    (UNION {Prefixes(EpDataEncode(v)) :
              v \in {EpBool(TRUE), EpInt32(258), EpFloat32(1093088051), EpText(<<98, 97>>),
                     EpBytes(<<255, 254>>), EpRgb(10, 20, 30)}}) \ {<< >>}

\* inputs of the descriptor decoder that are not encodings of a descriptor
BadDescriptorInputs ==
    {<< >>} \cup UnknownKind \cup TruncatedDescriptors
    \cup {EpDataEncode(EpBool(TRUE)), EpDataEncode(EpInt32(1))}
    \cup {WriteU16(ENDPOINT_DESCRIPTOR) \o WriteU16(65535) \o <<1, 0, 1, 0>>}

\* inputs of the data decoder that are not encodings of a value
BadDataInputs ==
    {<< >>} \cup UnknownKind \cup TruncatedData
    \cup {EpDescriptorEncode(EpDescriptor(Kind("Co2"), FlagR))}
    \cup {WriteU16(VALUE_STRING) \o WriteU16(1) \o <<255>>}

\* kind codes: the small ones and the ends of the u16 range
Codes == (0..MaxCode) \cup {255, 256, U16 - 1}

\* every kind whose code is one of Codes
Kinds == CanonicalKinds \cup {KindUnknown(v) : v \in Codes}

\* a call: the function applied last, the kind of input, the input the chain
\* of calls started from, and the argument of the last function
Call(name, t, arg, mid) == [name |-> name, t |-> t, arg |-> arg, mid |-> mid]

CodecInputs ==
    {Call("input", "descs", s, << >>) : s \in DescriptorSeqs}
    \cup {Call("input", "value", v, << >>) : v \in Values}
    \cup {Call("input", "values", s, << >>) : s \in ValueSeqs}
    \cup {Call("input", "descriptor bytes", b, << >>) : b \in BadDescriptorInputs}
    \cup {Call("input", "data bytes", b, << >>) : b \in BadDataInputs}
    \cup {Call("input", "code", [code |-> c], << >>) : c \in Codes}
    \cup {Call("input", "kind", k, << >>) : k \in Kinds}

\* the engines are constructed and idle; one input is drawn
CodecInit ==
    /\ op \in CodecInputs
    /\ pre = Idle
    /\ ret = Idle
    /\ tx = << >>
    /\ svc = [e \in Engines |-> EngineNew(e, MemoryStoreNew).svc]
    /\ pri = [e \in Engines |-> EngineNew(e, MemoryStoreNew).pri]
    /\ req_id = [e \in Engines |-> 0]
    /\ store = [e \in Engines |-> EngineNew(e, MemoryStoreNew).store]
    /\ running = [e \in Engines |-> TRUE]
    /\ returned = pri
    /\ allocated = [e \in Engines |-> 0]
    /\ net = [a \in Addrs |-> << >>]
    /\ emitted = [e \in Engines |-> << >>]

\* what the codecs leave alone
CodecFrame == UNCHANGED <<svc, pri, req_id, store, running, pre, tx, returned, allocated, net, emitted>>

\* IotService::encode_body of a sequence of descriptors; n lists the length
\* each encode() reported
EncodeBodyCall ==
    /\ op.name = "input" /\ op.t = "descs"
    /\ op' = Call("encode_body", op.t, op.arg, op.arg)
    /\ ret' = Ok([out |-> EncodeBody(op.arg),
                  n |-> [i \in DOMAIN op.arg |-> EpDescriptorEncodeLen(op.arg[i])]])
    /\ CodecFrame

\* IotService::decode_body of the bytes encode_body wrote
DecodeBodyCall(build) ==
    /\ op.name = "encode_body"
    /\ op' = Call("decode_body", op.t, op.arg, ret.val.out)
    /\ ret' = DecodeBody(ret.val.out, build)
    /\ CodecFrame

\* EpDescriptor::decode_owned of received bytes
DecodeDescriptorCall(build) ==
    /\ op.name = "input" /\ op.t = "descriptor bytes"
    /\ op' = Call("decode_descriptor", op.t, op.arg, op.arg)
    /\ ret' = EpDescriptorDecode(op.arg, build)
    /\ CodecFrame

\* EpData::encode of a value; n is the length encode() reported
EncodeDataCall ==
    /\ op.name = "input" /\ op.t = "value"
    /\ op' = Call("encode_data", op.t, op.arg, op.arg)
    /\ ret' = Ok([out |-> EpDataEncode(op.arg), n |-> Len(EpDataEncode(op.arg))])
    /\ CodecFrame

\* EpData::decode_owned of the bytes encode wrote, or of received bytes
DecodeDataCall ==
    LET bytes == IF op.name = "encode_data" THEN ret.val.out ELSE op.arg
    IN  /\ \/ op.name = "encode_data"
           \/ op.name = "input" /\ op.t = "data bytes"
        /\ op' = Call("decode_data", op.t, op.arg, bytes)
        /\ ret' = EpDataDecode(bytes)
        /\ CodecFrame

\* IotData::encode of a sequence of values; n is the length encode() reported
EncodeValuesCall ==
    /\ op.name = "input" /\ op.t = "values"
    /\ op' = Call("iot_encode", op.t, op.arg, op.arg)
    /\ ret' = Ok([out |-> IotDataEncode(op.arg), n |-> Len(IotDataEncode(op.arg))])
    /\ CodecFrame

\* IotData::parse of the bytes encode wrote
ParseValuesCall ==
    /\ op.name = "iot_encode"
    /\ op' = Call("iot_parse", op.t, op.arg, ret.val.out)
    /\ ret' = IotDataParse(ret.val.out)
    /\ CodecFrame

\* Kind::from(u16) of a code, or of the code u16::from(&kind) gave
KindFromCall ==
    LET c == IF op.name = "u16_from" THEN ret.val.code ELSE op.arg.code
    IN  /\ \/ op.name = "u16_from" /\ op.t = "kind"
           \/ op.name = "input" /\ op.t = "code"
        /\ op' = Call("kind_from", op.t, op.arg, [code |-> c])
        /\ ret' = Ok(KindFromU16(c))
        /\ CodecFrame

\* u16::from(&kind) of a kind, or of the kind Kind::from(u16) gave
U16FromCall ==
    LET k == IF op.name = "kind_from" THEN ret.val ELSE op.arg
    IN  /\ \/ op.name = "kind_from" /\ op.t = "code"
           \/ op.name = "input" /\ op.t = "kind"
        /\ op' = Call("u16_from", op.t, op.arg, k)
        /\ ret' = Ok([code |-> U16FromKind(k)])
        /\ CodecFrame

CodecNext ==
    \/ EncodeBodyCall
    \/ \E build \in {"debug", "release"} : DecodeBodyCall(build)
    \/ \E build \in {"debug", "release"} : DecodeDescriptorCall(build)
    \/ EncodeDataCall
    \/ DecodeDataCall
    \/ EncodeValuesCall
    \/ ParseValuesCall
    \/ KindFromCall
    \/ U16FromCall

CodecSpec == CodecInit /\ [][CodecNext]_vars

----------------------------------------------------------------------------
(* SledStore: the embedded key-value backend.  `db` is what sled holds under *)
(* the path (the trees "ident" and "page" and the key "last"); `peers` is    *)
(* the HashMap field of the struct.                                          *)

\* the database sled::open creates under a path that holds none
EmptyDb == [our_keys |-> NoKey, last_sig |-> NoInfo, pages |-> {}]

\* SledStore::new(path): the database under the path, and HashMap::new()
SledStoreNew(db) == [db |-> db, peers |-> << >>]

\* get_ident / set_ident: the tree "ident"
SledGetIdent(st) == st.db.our_keys

SledSetIdent(st, keys) == [st EXCEPT !.db.our_keys = keys]

\* get_last / set_last: the key "last"
SledGetLast(st) == st.db.last_sig

SledSetLast(st, info) == [st EXCEPT !.db.last_sig = info]

\* get_peer: self.peers.get(id)
SledGetPeer(st, id) ==
    IF id \in DOMAIN st.peers THEN [found |-> TRUE, peer |-> st.peers[id]]
    ELSE [found |-> FALSE]

\* update_peer(id, f): self.peers.entry(id).or_default(), then f
SledUpdatePeer(st, id, f) ==
    LET p  == IF id \in DOMAIN st.peers THEN st.peers[id] ELSE DefaultPeer
        np == CASE f = "subscriber" -> [p EXCEPT !.subscriber = TRUE]
                [] f = "addr" -> [p EXCEPT !.addr = "a1"]
                [] f = "keys" -> [p EXCEPT !.keys = PubKeyOf(id)]
                [] OTHER -> [p EXCEPT !.subscribed = Subscribing(1)]
    IN  [st EXCEPT !.peers = [q \in (DOMAIN st.peers) \cup {id} |-> IF q = id THEN np ELSE st.peers[q]]]

\* store_page / fetch_page: the tree "page"
SledStorePage(st, sig, p) == [st EXCEPT !.db = StorePage(st.db, sig, p)]

SledFetchPage(st, sig) ==
    IF HasPage(st.db, sig) THEN [found |-> TRUE, page |-> FetchPage(st.db, sig)]
    ELSE [found |-> FALSE]

\* the closures handed to update_peer
PeerUpdates == {"subscriber", "addr", "keys", "subscribing"}

\* the peers the store is asked about
SledPeers == {2, Peer}

\* the page and the last-object pointer handed to the store
SledPage == PrimaryPage(ServiceBuild(SUT, MemoryStoreNew))

SledInfo == ObjectInfo(0, 0, Sign(SledPage))

\* the store is opened on a path that holds no database
SledInit ==
    /\ store = [e \in Engines |-> SledStoreNew(EmptyDb)]
    /\ op = [name |-> "sled_new", eng |-> SUT, arg |-> [t |-> "Unit"]]
    /\ pre = [store |-> SledStoreNew(EmptyDb)]
    /\ ret = Ok([t |-> "Unit"])
    /\ tx = << >>
    /\ svc = [e \in Engines |-> EngineNew(e, MemoryStoreNew).svc]
    /\ pri = [e \in Engines |-> EngineNew(e, MemoryStoreNew).pri]
    /\ req_id = [e \in Engines |-> 0]
    /\ running = [e \in Engines |-> TRUE]
    /\ returned = pri
    /\ allocated = [e \in Engines |-> 0]
    /\ net = [a \in Addrs |-> << >>]
    /\ emitted = [e \in Engines |-> << >>]

\* what no call on the store touches
SledFrame == UNCHANGED <<svc, pri, req_id, running, tx, returned, allocated, net, emitted>>

\* the store is dropped and SledStore::new is called on the same path
SledReopen(e) ==
    /\ op = Idle
    /\ op' = [name |-> "sled_new", eng |-> e, arg |-> [t |-> "Unit"]]
    /\ pre' = [store |-> store[e]]
    /\ store' = [store EXCEPT ![e] = SledStoreNew(store[e].db)]
    /\ ret' = Ok([t |-> "Unit"])
    /\ SledFrame

SledUpdatePeerCall(e, id, f) ==
    /\ op = Idle
    /\ op' = [name |-> "update_peer", eng |-> e, arg |-> [id |-> id, f |-> f]]
    /\ pre' = [store |-> store[e]]
    /\ store' = [store EXCEPT ![e] = SledUpdatePeer(store[e], id, f)]
    /\ ret' = Ok([t |-> "Unit"])
    /\ SledFrame

SledGetPeerCall(e, id) ==
    /\ op = Idle
    /\ op' = [name |-> "get_peer", eng |-> e, arg |-> [id |-> id]]
    /\ pre' = [store |-> store[e]]
    /\ store' = [store EXCEPT ![e] = store[e]]
    /\ ret' = Ok(SledGetPeer(store[e], id))
    /\ SledFrame

SledSetIdentCall(e) ==
    /\ op = Idle
    /\ op' = [name |-> "set_ident", eng |-> e, arg |-> [keys |-> PubKeyOf(e)]]
    /\ pre' = [store |-> store[e]]
    /\ store' = [store EXCEPT ![e] = SledSetIdent(store[e], PubKeyOf(e))]
    /\ ret' = Ok([t |-> "Unit"])
    /\ SledFrame

SledGetIdentCall(e) ==
    /\ op = Idle
    /\ op' = [name |-> "get_ident", eng |-> e, arg |-> [t |-> "Unit"]]
    /\ pre' = [store |-> store[e]]
    /\ store' = [store EXCEPT ![e] = store[e]]
    /\ ret' = Ok([keys |-> SledGetIdent(store[e])])
    /\ SledFrame

SledSetLastCall(e) ==
    /\ op = Idle
    /\ op' = [name |-> "set_last", eng |-> e, arg |-> SledInfo]
    /\ pre' = [store |-> store[e]]
    /\ store' = [store EXCEPT ![e] = SledSetLast(store[e], SledInfo)]
    /\ ret' = Ok([t |-> "Unit"])
    /\ SledFrame

SledGetLastCall(e) ==
    /\ op = Idle
    /\ op' = [name |-> "get_last", eng |-> e, arg |-> [t |-> "Unit"]]
    /\ pre' = [store |-> store[e]]
    /\ store' = [store EXCEPT ![e] = store[e]]
    /\ ret' = Ok(SledGetLast(store[e]))
    /\ SledFrame

SledStorePageCall(e) ==
    /\ op = Idle
    /\ op' = [name |-> "store_page", eng |-> e, arg |-> SledPage]
    /\ pre' = [store |-> store[e]]
    /\ store' = [store EXCEPT ![e] = SledStorePage(store[e], Sign(SledPage), SledPage)]
    /\ ret' = Ok([t |-> "Unit"])
    /\ SledFrame

SledFetchPageCall(e) ==
    /\ op = Idle
    /\ op' = [name |-> "fetch_page", eng |-> e, arg |-> Sign(SledPage)]
    /\ pre' = [store |-> store[e]]
    /\ store' = [store EXCEPT ![e] = store[e]]
    /\ ret' = Ok(SledFetchPage(store[e], Sign(SledPage)))
    /\ SledFrame

\* the host calls the store, drops it and opens it again
SledNext ==
    \/ SledReopen(SUT)
    \/ \E id \in SledPeers, f \in PeerUpdates : SledUpdatePeerCall(SUT, id, f)
    \/ \E id \in SledPeers : SledGetPeerCall(SUT, id)
    \/ SledSetIdentCall(SUT)
    \/ SledGetIdentCall(SUT)
    \/ SledSetLastCall(SUT)
    \/ SledGetLastCall(SUT)
    \/ SledStorePageCall(SUT)
    \/ SledFetchPageCall(SUT)
    \/ Return /\ UNCHANGED <<net, emitted>>

SledSpec == SledInit /\ [][SledNext]_vars

----------------------------------------------------------------------------
(* C1 *)

\* a step of None -> Subscribing(r) -> Subscribed -> Unsubscribing(r') -> None
LinearStep(a, b) ==
    \/ a = SubNone /\ b.s = "Subscribing"
    \/ a.s = "Subscribing" /\ b = Subscribed
    \/ a = Subscribed /\ b.s = "Unsubscribing"
    \/ a.s = "Unsubscribing" /\ b = SubNone

\* C1 as stated: every change of a peer's subscription state made by an engine
\* operation is a step of None -> Subscribing(r) -> Subscribed -> Unsubscribing(r') -> None
C1_LinearOnly ==
    (Called("subscribe") \/ Called("publish") \/ Called("handle")) =>
        \A id \in Ids :
            \/ SubOf(store[op.eng], id) = SubOf(pre.store, id)
            \/ LinearStep(SubOf(pre.store, id), SubOf(store[op.eng], id))

\* C1 amended: a peer's subscription state changes only when subscribe() sets it
\* to Subscribing(r), r the request id the call allocated, from whatever state it
\* was in, and when a Status::Ok response from that peer with the id held in
\* Subscribing(r) / Unsubscribing(r) changes it to Subscribed / None
C1_Transitions ==
    (Called("subscribe") \/ Called("publish") \/ Called("handle")) =>
        \A id \in Ids :
            LET a == SubOf(pre.store, id)
                b == SubOf(store[op.eng], id)
            IN  \/ a = b
                \/ /\ Called("subscribe")
                   /\ op.id = id
                   /\ b = [s |-> "Subscribing", id |-> req_id[op.eng]]
                   /\ req_id[op.eng] = (pre.req_id + 1) % 65536
                \/ /\ Handling("Response")
                   /\ op.msg.from = id
                   /\ op.msg.data = [t |-> "Status", st |-> "Ok"]
                   /\ \/ a = [s |-> "Subscribing", id |-> op.msg.id] /\ b = Subscribed
                      \/ a = [s |-> "Unsubscribing", id |-> op.msg.id] /\ b = SubNone

\* subscribe() was called for a peer the engine was subscribed to, and took it back to Subscribing
C1_Witness ==
    /\ Called("subscribe")
    /\ SubOf(pre.store, op.id) = Subscribed
    /\ SubOf(store[op.eng], op.id).s = "Subscribing"

----------------------------------------------------------------------------
(* C2 *)

\* C2: after a successful publish() returning s, fetch_page(s) returns the
\* published object and the last-object pointer holds sig = s
C2_PublishedIsStored ==
    (Called("publish") /\ ret.ok) =>
        LET st == store[op.eng]
        IN  /\ \E e \in st.pages : e.sig = ret.val
            /\ \A e \in st.pages : e.sig = ret.val => e.page = op.obj
            /\ op.obj.data.body = op.body
            /\ st.last_sig.set
            /\ st.last_sig.sig = ret.val

\* a second publish() has succeeded
C2_Witness ==
    /\ Called("publish")
    /\ ret.ok
    /\ op.obj.id = 2
    /\ Cardinality(store[op.eng].pages) = 3

----------------------------------------------------------------------------
(* C3 *)

\* C3: the previous-signature of the object of a successful publish() is the
\* signature the preceding successful publish() returned, the signature of the
\* primary page generated at construction for the first
C3_ChainOfReturned ==
    (Called("publish") /\ ret.ok) => op.obj.data.prev = pre.returned

----------------------------------------------------------------------------
(* C4 *)

\* C4: a successful publish() sends the new object once to the stored address of
\* each peer with subscriber = true and a known address, and nothing else
C4_ForwardedToSubscribers ==
    (Called("publish") /\ ret.ok) =>
        LET peers == pre.store.peers
        IN  /\ \A i \in DOMAIN tx : tx[i].data = op.obj
            /\ \A a \in Addrs \cup {NoAddr} :
                   SentTo(a) = Cardinality({q \in DOMAIN peers :
                                    peers[q].subscriber /\ peers[q].addr = a /\ a # NoAddr})

\* a successful publish() with one subscriber and one peer that is not a
\* subscriber, both with a known address
C4_Witness ==
    /\ Called("publish")
    /\ ret.ok
    /\ Len(tx) = 1
    /\ \E q \in DOMAIN pre.store.peers :
           ~pre.store.peers[q].subscriber /\ pre.store.peers[q].addr # NoAddr

----------------------------------------------------------------------------
(* C5 *)

\* C5: when the send to one subscriber fails, publish() still returns Ok and the
\* object is sent to every other subscriber
C5_SendErrorTolerated ==
    (Called("publish") /\ op.sent < op.subs) =>
        /\ ret.ok
        /\ Len(tx) = op.subs - 1

----------------------------------------------------------------------------
(* C6 *)

\* C6: subscribe(id, addr) allocates the next request id r and leaves
\* peers[id].subscribed = Subscribing(r), creating the record if it is missing;
\* when Communications::send accepts the datagram, it has sent exactly one
\* Request{from = own id, id = r, body = Subscribe(id)} to addr
C6_Subscribe ==
    Called("subscribe") =>
        LET r  == (pre.req_id + 1) % 65536
            st == store[op.eng]
        IN  /\ req_id[op.eng] = r
            /\ op.id \in DOMAIN st.peers
            /\ st.peers[op.id].subscribed = [s |-> "Subscribing", id |-> r]
            /\ ret.ok =>
                  /\ Len(tx) = 1
                  /\ tx[1].to = op.addr
                  /\ tx[1].data.kind = "Request"
                  /\ tx[1].data.from = svc[op.eng].id
                  /\ tx[1].data.id = r
                  /\ tx[1].data.data = [t |-> "Subscribe", id |-> op.id]
            /\ ~ret.ok => tx = << >>

\* subscribe() to a service without a peer record, the request sent
C6_Witness ==
    /\ Called("subscribe")
    /\ ret.ok
    /\ op.id \notin DOMAIN pre.store.peers
    /\ Len(tx) = 1

----------------------------------------------------------------------------
(* C7 *)

\* C7: handling Response{from = P, id = r, Status::Ok} while peers[P].subscribed
\* is Subscribing(r) leaves it Subscribed and returns SubscribedTo(P)
C7_SubscribeOk ==
    (/\ Handling("Response")
     /\ op.msg.from \in DOMAIN pre.store.peers
     /\ SubOf(pre.store, op.msg.from) = [s |-> "Subscribing", id |-> op.msg.id]
     /\ op.msg.data = [t |-> "Status", st |-> "Ok"]) =>
        /\ SubOf(store[op.eng], op.msg.from) = Subscribed
        /\ ret = Ok([t |-> "SubscribedTo", id |-> op.msg.from])

\* the Ok response to the subscribe request has been handled
C7_Witness ==
    /\ Handling("Response")
    /\ SubOf(pre.store, op.msg.from) = [s |-> "Subscribing", id |-> op.msg.id]
    /\ op.msg.data = [t |-> "Status", st |-> "Ok"]
    /\ SubOf(store[op.eng], op.msg.from) = Subscribed

----------------------------------------------------------------------------
(* C8 *)

\* C8: handling a response from P with id r and a status other than Ok while
\* peers[P].subscribed is Subscribing(r) leaves the state None and returns no event
C8_SubscribeRefused ==
    (/\ Handling("Response")
     /\ op.msg.from \in DOMAIN pre.store.peers
     /\ SubOf(pre.store, op.msg.from) = [s |-> "Subscribing", id |-> op.msg.id]
     /\ op.msg.data.t = "Status"
     /\ op.msg.data.st # "Ok") =>
        /\ SubOf(store[op.eng], op.msg.from) = SubNone
        /\ ret = Ok(EvNone)

----------------------------------------------------------------------------
(* C9 *)

\* C9: a status response from P whose id differs from the request id held in
\* P's Subscribing / Unsubscribing state leaves the subscription state as it is
\* and returns Event::None
C9_StaleResponseIgnored ==
    (/\ Handling("Response")
     /\ op.msg.from \in DOMAIN pre.store.peers
     /\ SubOf(pre.store, op.msg.from).s \in {"Subscribing", "Unsubscribing"}
     /\ op.msg.data.t = "Status"
     /\ op.msg.id # SubOf(pre.store, op.msg.from).id) =>
        /\ SubOf(store[op.eng], op.msg.from) = SubOf(pre.store, op.msg.from)
        /\ ret = Ok(EvNone)

\* subscribe() was issued twice (ids 1 and 2) and the Ok reply to the first arrives
C9_Witness ==
    /\ Handling("Response")
    /\ SubOf(pre.store, op.msg.from) = [s |-> "Subscribing", id |-> 2]
    /\ pre.req_id = 2
    /\ op.msg.id = 1
    /\ op.msg.data = [t |-> "Status", st |-> "Ok"]
    /\ SubOf(store[op.eng], op.msg.from) = [s |-> "Subscribing", id |-> 2]

----------------------------------------------------------------------------
(* C10 *)

\* C10: handling Request{from = P, Subscribe(own id)} received from address a
\* leaves peers[P].subscriber = true and peers[P].addr = a; when
\* Communications::send accepts the reply, exactly one Response{Status::Ok} with
\* the request's id has gone to a and the handler has returned SubscribeFrom(P)
C10_SubscribeRequest ==
    (/\ Handling("Request")
     /\ op.msg.data = [t |-> "Subscribe", id |-> svc[op.eng].id]) =>
        LET st == store[op.eng]
            P  == op.msg.from
        IN  /\ P \in DOMAIN st.peers
            /\ st.peers[P].subscriber
            /\ st.peers[P].addr = op.from
            /\ ret.ok =>
                  /\ ret.val = [t |-> "SubscribeFrom", id |-> P]
                  /\ Len(tx) = 1
                  /\ tx[1].to = op.from
                  /\ tx[1].data.kind = "Response"
                  /\ tx[1].data.from = svc[op.eng].id
                  /\ tx[1].data.id = op.msg.id
                  /\ tx[1].data.data = [t |-> "Status", st |-> "Ok"]
            /\ ~ret.ok => ret = Err("Comms") /\ tx = << >>

\* a Subscribe request from a service without a peer record has been answered
C10_Witness ==
    /\ Handling("Request")
    /\ op.msg.data = [t |-> "Subscribe", id |-> svc[op.eng].id]
    /\ op.msg.from \notin DOMAIN pre.store.peers
    /\ ret = Ok([t |-> "SubscribeFrom", id |-> op.msg.from])
    /\ store[op.eng].peers[op.msg.from].addr = op.from

----------------------------------------------------------------------------
(* C11 *)

\* C11: handling Request{from = P, Unsubscribe(own id)} leaves
\* peers[P].subscriber = false; when Communications::send accepts the reply,
\* one Response{Status::Ok} with the request's id has gone to the source address
\* and the handler has returned UnsubscribeFrom(P).  Later publish() calls send
\* nothing to P: publish() sends only to peers whose flag is true, and the flag
\* becomes true only by handling a Subscribe(own id) request from that peer
C11_UnsubscribeRequest ==
    /\ (/\ Handling("Request")
        /\ op.msg.data = [t |-> "Unsubscribe", id |-> svc[op.eng].id]) =>
           LET st == store[op.eng]
               P  == op.msg.from
           IN  /\ P \in DOMAIN st.peers
               /\ ~st.peers[P].subscriber
               /\ ret.ok =>
                     /\ ret.val = [t |-> "UnsubscribeFrom", id |-> P]
                     /\ Len(tx) = 1
                     /\ tx[1].to = op.from
                     /\ tx[1].data.kind = "Response"
                     /\ tx[1].data.id = op.msg.id
                     /\ tx[1].data.data = [t |-> "Status", st |-> "Ok"]
               /\ ~ret.ok => ret = Err("Comms") /\ tx = << >>
    /\ Called("publish") =>
           /\ Len(tx) = op.sent
           /\ \A i \in DOMAIN tx :
                  /\ op.order[i] \in DOMAIN pre.store.peers
                  /\ pre.store.peers[op.order[i]].subscriber
                  /\ tx[i].to = pre.store.peers[op.order[i]].addr
    /\ (Called("subscribe") \/ Called("publish") \/ Called("handle")) =>
           \A P \in DOMAIN store[op.eng].peers :
               (store[op.eng].peers[P].subscriber /\ ~GetPeer(pre.store, P).subscriber) =>
                   /\ Handling("Request")
                   /\ op.msg.from = P
                   /\ op.msg.data = [t |-> "Subscribe", id |-> svc[op.eng].id]

\* a subscriber has unsubscribed and the reply has been sent
C11_Witness ==
    /\ Handling("Request")
    /\ op.msg.data = [t |-> "Unsubscribe", id |-> svc[op.eng].id]
    /\ GetPeer(pre.store, op.msg.from).subscriber
    /\ ~store[op.eng].peers[op.msg.from].subscriber
    /\ ret = Ok([t |-> "UnsubscribeFrom", id |-> op.msg.from])

----------------------------------------------------------------------------
(* C12 *)

\* C12: handling Subscribe(id) or Unsubscribe(id) with id different from the
\* engine's own id answers Status::InvalidRequest, returns Event::None and
\* creates or modifies no peer record
C12_InvalidNoSideEffect ==
    (/\ Handling("Request")
     /\ op.msg.data.t \in {"Subscribe", "Unsubscribe"}
     /\ op.msg.data.id # svc[op.eng].id) =>
        /\ store[op.eng].peers = pre.store.peers
        /\ ret.ok =>
              /\ ret.val = [t |-> "None"]
              /\ Len(tx) = 1
              /\ tx[1].data.data = [t |-> "Status", st |-> "InvalidRequest"]

----------------------------------------------------------------------------
(* C13 *)

\* C13: handling Request{id = n, Hello} or Request{id = n, Ping} received from
\* address a returns Event::None after exactly one Response{id = n, Status::Ok}
\* has gone to a; when Communications::send refuses the reply, nothing has gone
\* out and handle() returns the Comms error
C13_HelloPing ==
    (/\ Handling("Request")
     /\ op.msg.data.t \in {"Hello", "Ping"}) =>
        /\ ret.ok =>
              /\ ret.val = [t |-> "None"]
              /\ Len(tx) = 1
              /\ tx[1].to = op.from
              /\ tx[1].data.kind = "Response"
              /\ tx[1].data.from = svc[op.eng].id
              /\ tx[1].data.id = op.msg.id
              /\ tx[1].data.data = [t |-> "Status", st |-> "Ok"]
        /\ ~ret.ok => ret = Err("Comms") /\ tx = << >>

\* a Ping with the largest request id, received from the second address, has been answered
C13_Witness ==
    /\ Handling("Request")
    /\ op.msg.data = [t |-> "Ping"]
    /\ op.msg.id = 65535
    /\ op.from = "a2"
    /\ ret.ok
    /\ Len(tx) = 1
    /\ tx[1].data.id = 65535

----------------------------------------------------------------------------
(* C14 *)

\* C14: handle() of an object whose sender id is the engine's own id returns
\* Event::None, sends nothing and leaves the store, pri and the request-id
\* counter as they were, whatever the kind of the object
C14_OwnPacketDropped ==
    (/\ Called("handle")
     /\ op.msg.kind # "Malformed"
     /\ op.msg.from = svc[op.eng].id) =>
        /\ ret = Ok([t |-> "None"])
        /\ tx = << >>
        /\ store[op.eng] = pre.store
        /\ pri[op.eng] = pre.pri
        /\ req_id[op.eng] = pre.req_id

\* the engine has dropped its own Subscribe request, which carries its public key
C14_Witness ==
    /\ Called("handle")
    /\ op.msg.kind = "Request"
    /\ op.msg.from = svc[op.eng].id
    /\ op.msg.data.t = "Subscribe"
    /\ op.msg.public_key # 0
    /\ ret = Ok([t |-> "None"])
    /\ op.msg.from \notin DOMAIN store[op.eng].peers

----------------------------------------------------------------------------
(* C15 *)

\* C15: a call that processes an inbound datagram sends at most one datagram
\* and takes one datagram from Communications::recv; a tick() that finds no
\* datagram takes none, sends none, returns Event::None and leaves the store
\* unchanged
C15_OneInOneOut ==
    /\ Called("handle") => Len(tx) <= 1 /\ op.taken = 1
    /\ (Called("tick") /\ op.recv = "none") =>
           /\ op.taken = 0
           /\ tx = << >>
           /\ ret = Ok([t |-> "None"])
           /\ store[op.eng] = pre.store

\* tick() has found no datagram while the engine has a subscriber
C15_Witness ==
    /\ Called("tick")
    /\ op.recv = "none"
    /\ ret = Ok([t |-> "None"])
    /\ \E q \in DOMAIN store[op.eng].peers : store[op.eng].peers[q].subscriber

----------------------------------------------------------------------------
(* C16 *)

\* C16: a datagram that fails parsing or signature verification is swallowed:
\* the call returns Event::None without an error, nothing is sent, the store is
\* unchanged and the engine goes on
C16_MalformedSwallowed ==
    (Called("handle") /\ op.msg.kind = "Malformed") =>
        /\ ret = Ok([t |-> "None"])
        /\ tx = << >>
        /\ store[op.eng] = pre.store
        /\ running[op.eng]

----------------------------------------------------------------------------
(* C17 *)

\* C17: handling a response from a sender without a peer record, or a response
\* whose body is not a status, returns a value (an event or an error result),
\* leaves the store unchanged and leaves the engine running
C17_ResponseNeverAborts ==
    (/\ Handling("Response")
     /\ \/ op.msg.from \notin DOMAIN pre.store.peers
        \/ op.msg.data.t # "Status") =>
        /\ ret # Err("panic")
        /\ running[op.eng]
        /\ store[op.eng] = pre.store

----------------------------------------------------------------------------
(* C18 *)

\* C18: handling a primary page of service S (not the engine's own) leaves a
\* peer record for S that holds the page's embedded public key, whether the
\* record was missing or present, and returns Discover(S)
C18_PrimaryPageDiscovers ==
    (/\ Handling("Page")
     /\ op.msg.data.t = "Primary") =>
        LET S == op.msg.from
        IN  /\ S \in DOMAIN store[op.eng].peers
            /\ store[op.eng].peers[S].keys = op.msg.public_key
            /\ ret.ok => ret.val = [t |-> "Discover", id |-> S]

----------------------------------------------------------------------------
(* C19 *)

\* C19: handling a data object of service S returns ReceivedData(S, signature)
\* only when a peer record for S exists with subscription state Subscribed;
\* with no record, or state None, Subscribing or Unsubscribing, it returns
\* Event::None
C19_DataOnlyWhenSubscribed ==
    (/\ Handling("Block")
     /\ op.msg.data.t = "Data"
     /\ ret.ok) =>
        LET S == op.msg.from
            subscribed == /\ S \in DOMAIN pre.store.peers
                          /\ pre.store.peers[S].subscribed = [s |-> "Subscribed", id |-> 0]
        IN  /\ ret.val.t \in {"ReceivedData", "None"}
            /\ ret.val.t = "ReceivedData" => subscribed /\ ret.val.id = S
            /\ ~subscribed => ret.val = [t |-> "None"]

----------------------------------------------------------------------------
(* C20 *)

\* C20: with both hosts ticking and every datagram delivered, the k-th
\* subscribe(engine 2) of engine 1 leads to the k-th SubscribeFrom(1) emitted by
\* engine 2, which leads to SubscribedTo(2) emitted by engine 1; a publish() of
\* engine 2 that returns sig (only engine 2 publishes here, and returned[2]
\* holds what its publish() returned) after engine 1 has emitted SubscribedTo(2)
\* leads to ReceivedData(2, sig) emitted by engine 1
C20_RoundTrip ==
    /\ \A k \in 1..NetMaxSubscribe :
           (req_id[1] >= k) ~> (Count(emitted[2], [t |-> "SubscribeFrom", id |-> 1]) >= k)
    /\ Emitted(2, [t |-> "SubscribeFrom", id |-> 1])
           ~> Emitted(1, [t |-> "SubscribedTo", id |-> 2])
    /\ \A sig \in NetSigs :
           (/\ Called("publish") /\ returned[2] = sig
            /\ Emitted(1, [t |-> "SubscribedTo", id |-> 2]))
           ~> Emitted(1, [t |-> "ReceivedData", id |-> 2, sig |-> sig])

\* engine 2 has heard the subscription, engine 1 its confirmation, and engine 1
\* has then received what engine 2 published
C20_Witness ==
    /\ Emitted(2, [t |-> "SubscribeFrom", id |-> 1])
    /\ Len(emitted[1]) >= 2
    /\ emitted[1][1] = [t |-> "SubscribedTo", id |-> 2]
    /\ NetSigs # {}
    /\ \A sig \in NetSigs : Emitted(1, [t |-> "ReceivedData", id |-> 2, sig |-> sig])
    /\ store[2].peers[1].addr = "a1"

----------------------------------------------------------------------------
(* C21 *)

\* C21: an engine constructed over a store that holds identity keys has the id
\* derived from them; constructed over a store without identity it leaves its
\* freshly generated keys in the store, so that get_ident() returns the engine's
\* keys and an engine constructed next over the same store has the same id
C21_IdentityPersisted ==
    Called("new") =>
        /\ pre.store.our_keys # 0 => svc[op.eng].id = pre.store.our_keys - 100
        /\ store[op.eng].our_keys = 100 + svc[op.eng].id
        /\ \A fresh \in {1, 4} : EngineNew(fresh, store[op.eng]).svc.id = svc[op.eng].id

----------------------------------------------------------------------------
(* C22 *)

\* C22: after a successful Engine::new, pri is the signature of the primary page
\* the engine generated, the page store returns that page for pri, and the
\* last-object pointer is {page_index = the page's index, block_index = 0,
\* sig = pri}; when a store or core operation fails an error is returned and
\* there is no engine
C22_ConstructionStoresPrimary ==
    Called("new") =>
        LET st == store[op.eng]
        IN  /\ ret.ok =>
                  /\ running[op.eng]
                  /\ \E e \in st.pages : e.sig = pri[op.eng]
                  /\ \A e \in st.pages : e.sig = pri[op.eng] =>
                         /\ e.page.kind = "Page"
                         /\ e.page.from = svc[op.eng].id
                         /\ e.page.data.t = "Primary"
                         /\ e.page.data.body = {"Temperature/R", "Pressure/R", "Humidity/R"}
                         /\ e.page.public_key = 100 + svc[op.eng].id
                         /\ e.sig = [sig |-> <<e.page.kind, e.page.from, e.page.id, e.page.data>>]
                         /\ st.last_sig = [page_index |-> e.page.id, block_index |-> 0,
                                           sig |-> pri[op.eng], set |-> TRUE]
            /\ ~ret.ok => ~running[op.eng] /\ ret.err \in {"Store", "Core"}

\* an engine has been constructed over a store that held a peer and identity keys
C22_Witness ==
    /\ Called("new")
    /\ ret.ok
    /\ pre.store.our_keys # 0
    /\ DOMAIN pre.store.peers # {}
    /\ \E e \in store[op.eng].pages : e.sig = pri[op.eng]

----------------------------------------------------------------------------
(* C23 *)

\* C23: handling Discover(body, opts) received from address a, the engine sends
\* to a the page its page store holds for pri, and nothing else, if and only if
\* body is empty, or a descriptor of body is one of the engine's descriptors, or
\* an option of opts is one of the service's public options (a refused send
\* leaves nothing sent); when none of the three holds nothing is sent and
\* Event::None is returned
C23_DiscoverFilter ==
    (/\ Handling("Request")
     /\ op.msg.data.t = "Discover") =>
        LET d == op.msg.data
            m == \/ d.body = {}
                 \/ d.body \cap {"Temperature/R", "Pressure/R", "Humidity/R"} # {}
                 \/ d.opts \cap SvcPublicOptions # {}
        IN  /\ (m /\ ret.ok) =>
                  /\ Len(tx) = 1
                  /\ tx[1].to = op.from
                  /\ \E e \in pre.store.pages : e.sig = pre.pri /\ tx[1].data = e.page
                  /\ tx[1].data.data.t = "Primary"
                  /\ tx[1].data.from = svc[op.eng].id
            /\ (m /\ ~ret.ok) => ret = Err("Comms") /\ tx = << >>
            /\ ~m => tx = << >> /\ ret = Ok([t |-> "None"])

\* a Discover whose filter names one of the engine's descriptors has been answered
\* with the primary page
C23_Witness ==
    /\ Handling("Request")
    /\ op.msg.data.t = "Discover"
    /\ op.msg.data.body = {"Temperature/R"}
    /\ ret.ok
    /\ Len(tx) = 1
    /\ tx[1].data.kind = "Page"

----------------------------------------------------------------------------
(* C24 *)

\* C24: discover(body, opts) advances req_id to the next id r (wrapping at 2^16),
\* changes nothing in the store and sends no unicast datagram; when the broadcast
\* is accepted exactly one datagram has been broadcast, the request
\* {from = our id, id = r, Discover(body, opts), PUB_KEY_REQUEST set, our public
\* key attached}, and the call returns r; otherwise nothing has been sent
C24_Discover ==
    Called("discover") =>
        LET e == op.eng
            r == (pre.req_id + 1) % 65536
        IN  /\ req_id[e] = r
            /\ store[e] = pre.store
            /\ \A i \in DOMAIN tx : tx[i].to \notin Addrs
            /\ ret.ok =>
                  /\ ret.val = [t |-> "ReqId", id |-> r]
                  /\ Len(tx) = 1
                  /\ tx[1].to = "broadcast"
                  /\ tx[1].data =
                        [kind |-> "Request", from |-> svc[e].id, id |-> r, pkr |-> TRUE,
                         public_key |-> 100 + svc[e].id,
                         data |-> [t |-> "Discover", body |-> op.body, opts |-> op.opts]]
            /\ ~ret.ok => tx = << >> /\ ret.err \in {"Comms", "panic"}

\* a discover() whose id wrapped to 0 has broadcast its request, with peers in the store
C24_Witness ==
    /\ Called("discover")
    /\ ret.ok
    /\ pre.req_id = 65535
    /\ ret.val.id = 0
    /\ op.body = {"Co2/R"}
    /\ DOMAIN store[op.eng].peers # {}
    /\ Len(tx) = 1

----------------------------------------------------------------------------
(* C25 *)

\* C25: every request the engine sends to a peer whose public key the store does
\* not hold (no record for the peer, or a record without a key) has the
\* PUB_KEY_REQUEST flag set
C25_KeyRequestedWhenUnknown ==
    (Called("subscribe") \/ Called("discover")) =>
        \A i \in DOMAIN tx :
            LET unknown == \/ Called("discover")
                           \/ op.id \notin DOMAIN pre.store.peers
                           \/ pre.store.peers[op.id].keys = 0
            IN  (tx[i].data.kind = "Request" /\ unknown) => tx[i].data.pkr

----------------------------------------------------------------------------
(* C26 *)

\* C26: when a request received with the PUB_KEY_REQUEST flag is answered, every
\* datagram sent in answer (a response, or the primary page) goes to the sender's
\* address and carries the engine's public key
C26_KeyInResponse ==
    (/\ Handling("Request")
     /\ op.msg.pkr) =>
        \A i \in DOMAIN tx :
            /\ tx[i].to = op.from
            /\ tx[i].data.kind \in {"Response", "Page"}
            /\ tx[i].data.from = svc[op.eng].id
            /\ tx[i].data.public_key = 100 + svc[op.eng].id

\* a Subscribe request with the flag set has been answered by a response with our key
C26_Witness ==
    /\ Handling("Request")
    /\ op.msg.pkr
    /\ op.msg.data.t = "Subscribe"
    /\ ret.ok
    /\ Len(tx) = 1
    /\ tx[1].data.kind = "Response"
    /\ tx[1].data.public_key = 101

----------------------------------------------------------------------------
(* C27 *)

\* C27: for every sequence s of descriptors with a canonical kind and flags R, W
\* or RW, each descriptor encodes to 8 bytes, and decoding the concatenated
\* encodings descriptor by descriptor yields exactly s, the decoder reporting 8
\* bytes consumed for each
C27_DescriptorRoundTrip ==
    /\ op.name = "encode_body" =>
          /\ ret.val.n = [i \in DOMAIN op.arg |-> 8]
          /\ Len(ret.val.out) = 8 * Len(op.arg)
    /\ op.name = "decode_body" =>
          /\ Len(op.mid) = 8 * Len(op.arg)
          /\ ret = Ok([out |-> op.arg, n |-> [i \in DOMAIN op.arg |-> 8]])

\* two different descriptors have been encoded and decoded again
C27_Witness ==
    /\ op.name = "decode_body"
    /\ Len(op.arg) = 2
    /\ op.arg[1].kind # op.arg[2].kind
    /\ op.arg[1].flags # op.arg[2].flags
    /\ ret.ok
    /\ ret.val.out = op.arg

----------------------------------------------------------------------------
(* C28 *)

\* C28: for every value v (Bool, Int32, Float32 as its bit pattern, Text and
\* Bytes of at most 64 bytes, Rgb), decoding the bytes encode(v) wrote yields v
\* and reports as consumed the number of bytes written, which is encode_len(v)
C28_DataRoundTrip ==
    /\ (op.name = "encode_data") =>
          /\ ret.val.n = Len(ret.val.out)
          /\ ret.val.n = EpDataEncodeLen(op.arg)
          /\ ret.val.n = CASE op.arg.t = "Bool" -> 4
                            [] op.arg.t \in {"Text", "Bytes"} -> 4 + Len(op.arg.b)
                            [] OTHER -> 8
    /\ (op.name = "decode_data" /\ op.t = "value") =>
          ret = Ok([out |-> op.arg, n |-> Len(op.mid)])

\* a text that fills the container has been encoded and decoded again
C28_Witness ==
    /\ op.name = "decode_data"
    /\ op.t = "value"
    /\ op.arg.t = "Text"
    /\ Len(op.arg.b) = 64
    /\ ret.ok
    /\ ret.val.n = 68

----------------------------------------------------------------------------
(* C29 *)

\* the payload bytes an option kind requires after the 4-byte header
PayloadOf(kind, len) ==
    CASE kind \in {32769, 32772, 32773, 32776} -> 4
      [] kind \in {32774, 32775} -> len
      [] OTHER -> 0

\* the input is rejected by the claim: its kind is not one of `accepted`, or it
\* is shorter than the header plus the payload required or announced
MustReject(b, accepted) ==
    \/ Len(b) < 4
    \/ b[1] + 256 * b[2] \notin accepted
    \/ Len(b) < 4 + (b[3] + 256 * b[4])
    \/ Len(b) < 4 + PayloadOf(b[1] + 256 * b[2], b[3] + 256 * b[4])

\* C29: the descriptor decoder and the value decoder return InvalidOption, and
\* do not abort, for every input whose option kind they do not accept or whose
\* payload is truncated
C29_DecodersReject ==
    /\ (op.name = "decode_descriptor" /\ MustReject(op.mid, {32769})) =>
          ret = Err("InvalidOption")
    /\ (op.name = "decode_data" /\ op.t = "data bytes" /\ MustReject(op.mid, 32770..32776)) =>
          ret = Err("InvalidOption")

----------------------------------------------------------------------------
(* C30 *)

\* C30: kinds and 16-bit codes correspond one to one: code(kind(c)) = c for
\* every code c, kind(code(k)) = k for every kind k, Unknown(v) included; codes
\* 1..7 are the seven canonical kinds and every other code c is Unknown(c)
C30_KindCodeBijection ==
    /\ (op.name = "kind_from" /\ op.t = "code") =>
          LET c == op.arg.code
          IN  /\ c \in 1..7 => ret.val.k # "Unknown" /\ ENDPOINT_KINDS[c] = <<c, ret.val.k>>
              /\ c \notin 1..7 => ret.val = [k |-> "Unknown", v |-> c]
    /\ (op.name = "u16_from" /\ op.t = "code") => ret.val.code = op.arg.code
    /\ (op.name = "kind_from" /\ op.t = "kind") => ret.val = op.arg

----------------------------------------------------------------------------
(* C31 *)

\* C31: every page or data object an operation hands to Communications::send
\* (the forwarding of publish(), register(), the replies to Discover and Query)
\* is held by the page store under its signature when the operation has sent
\* it, and no operation removes an entry from a page store
C31_SentObjectsStored ==
    op # Idle =>
        /\ \A i \in DOMAIN tx :
               tx[i].data.kind \in {"Page", "Block"} =>
                   \E x \in store[op.eng].pages :
                       /\ x.page = tx[i].data
                       /\ x.sig = [sig |-> <<x.page.kind, x.page.from, x.page.id, x.page.data>>]
        /\ \A x \in pre.store.pages : x \in store[op.eng].pages

\* register() has sent the primary page while the store also holds two data objects
C31_Witness ==
    /\ Called("register")
    /\ ret.ok
    /\ Len(tx) = 1
    /\ tx[1].data.kind = "Page"
    /\ tx[1].to = op.addr
    /\ Cardinality(store[op.eng].pages) = 3

----------------------------------------------------------------------------
(* C32 *)

\* C32: the object of each publish() has an index greater than that of every
\* data object of the service the store already holds, publish() leaves that
\* index in the last-object pointer, above the block index the pointer held, and
\* an engine constructed over a store with a last-object pointer continues from
\* the block index the pointer holds
C32_IndicesIncrease ==
    /\ Called("publish") =>
          /\ \A x \in pre.store.pages :
                 (x.page.kind = "Block" /\ x.page.from = op.obj.from) => op.obj.id > x.page.id
          /\ store[op.eng].last_sig.block_index = op.obj.id
          /\ store[op.eng].last_sig.block_index > pre.store.last_sig.block_index
    /\ (Called("new") /\ ret.ok /\ pre.store.last_sig.set) =>
          svc[op.eng].data_index >= pre.store.last_sig.block_index

----------------------------------------------------------------------------
(* C33 *)

----------------------------------------------------------------------------
(* C34 *)

\* C34: the embedded store keeps its peer records across a reopening: when the
\* store has been opened again on the same path, get_peer(id) returns for every
\* peer the record it returned before, as it does for the identity, the pages
\* and the last-object pointer
C34_PeersSurviveReopen ==
    (op.name = "sled_new" /\ ret.ok) =>
        /\ \A id \in SledPeers : SledGetPeer(store[op.eng], id) = SledGetPeer(pre.store, id)
        /\ store[op.eng].db = pre.store.db

----------------------------------------------------------------------------
(* C35 *)

\* C35: publish() of an object larger than the N-byte buffer, and handle() of
\* an inbound datagram larger than it, return the error Unsupported and leave
\* the last-object pointer, the page store and the peer table as they were
C35_OversizeUnsupported ==
    (\/ Called("publish") /\ op.body = TooLarge
     \/ Called("handle") /\ op.msg.kind = "Malformed" /\ op.data = Truncated) =>
        /\ ret = Err("Unsupported")
        /\ store[op.eng] = pre.store

----------------------------------------------------------------------------
(* C36 *)

\* C36: whenever the record an engine holds for the other has subscription
\* state Subscribed, the other engine's record for it has subscriber = true
C36_SubscribedImpliesSubscriber ==
    \A a, b \in Engines :
        (/\ a # b
         /\ HasPeer(store[b], svc[a].id)
         /\ store[b].peers[svc[a].id].subscribed = Subscribed) =>
            /\ HasPeer(store[a], svc[b].id)
            /\ store[a].peers[svc[b].id].subscriber

----------------------------------------------------------------------------
(* C37 *)

\* C37: handling a response sends no datagram, and the engines, ticking, reach
\* a state from which no datagram is in flight
C37_ExchangesEnd ==
    /\ [](Handling("Response") => tx = << >>)
    /\ <>[](\A a \in Addrs : net[a] = << >>)

\* a status response to a forwarded data object has been handled while a
\* response to a Subscribe request is still in flight
C37_Witness ==
    /\ Handling("Response")
    /\ HasPeer(pre.store, op.msg.from)
    /\ pre.store.peers[op.msg.from].subscriber
    /\ tx = << >>
    /\ \E a \in Addrs : \E i \in DOMAIN net[a] : net[a][i][2].kind = "Response"

----------------------------------------------------------------------------
(* C38 *)

\* C38: after construction, and after every publish() or register() that
\* returns Ok or a communications error, fetch_page finds a page under the
\* engine's pri signature and under the signature of the last-object pointer
C38_PointersResolve ==
    (\/ Called("new") /\ ret.ok
     \/ /\ Called("publish") \/ Called("register")
        /\ ret.ok \/ ret = Err("Comms")) =>
        LET st == store[op.eng]
        IN  /\ HasPage(st, pri[op.eng])
            /\ st.last_sig.set
            /\ HasPage(st, st.last_sig.sig)

\* register() has failed to send after a publish(): the last-object pointer is
\* at the data object, pri at the primary page
C38_Witness ==
    /\ Called("register")
    /\ ret = Err("Comms")
    /\ store[op.eng].last_sig.sig # pri[op.eng]
    /\ store[op.eng].last_sig.block_index >= 1
    /\ HasPage(store[op.eng], pri[op.eng])

----------------------------------------------------------------------------
(* C39 *)

\* the peers on record before or after the last operation
Recorded == (DOMAIN pre.store.peers) \cup (DOMAIN store[op.eng].peers)

\* C39: handling a request changes no peer's `subscribed` state, handling a
\* response, a page or a data object changes no peer's `subscriber` flag,
\* publish() changes no peer record, and handle() changes or creates no record
\* but that of the sender of the object
C39_PeerFrame ==
    /\ Handling("Request") =>
           \A q \in Recorded : SubOf(store[op.eng], q) = SubOf(pre.store, q)
    /\ (Handling("Response") \/ Handling("Page") \/ Handling("Block")) =>
           \A q \in Recorded :
               GetPeer(store[op.eng], q).subscriber = GetPeer(pre.store, q).subscriber
    /\ Called("publish") => store[op.eng].peers = pre.store.peers
    /\ Called("handle") =>
           \A q \in Recorded :
               (op.msg.kind = "Malformed" \/ q # op.msg.from) =>
                   /\ HasPeer(pre.store, q)
                   /\ HasPeer(store[op.eng], q)
                   /\ store[op.eng].peers[q] = pre.store.peers[q]

\* a Subscribe request of the second engine has been handled, making it a
\* subscriber, while the engine is subscribing to the peer
C39_Witness ==
    /\ Handling("Request")
    /\ op.msg.from = 2
    /\ store[op.eng].peers[2].subscriber
    /\ ~GetPeer(pre.store, 2).subscriber
    /\ HasPeer(pre.store, Peer)
    /\ pre.store.peers[Peer].subscribed.s = "Subscribing"

----------------------------------------------------------------------------
(* C40 *)

\* C40: parsing the concatenated encodings of a sequence of endpoint values of
\* mixed types yields the same sequence of values and consumes every byte
C40_MixedRoundTrip ==
    op.name = "iot_parse" =>
        /\ ret.ok
        /\ ret.val.out = op.arg
        /\ ret.val.n = Len(op.mid)

====
